---------------------------- MODULE Spec2Model ----------------------------
(***************************************************************************)
(* Model of the claude-review-daemon polling daemon (src/bridge.py):       *)
(* StateManager, GitHubClient, ReviewCoordinator and Daemon.run, together  *)
(* with the review job processes the daemon launches and the termination   *)
(* signal it handles.                                                      *)
(***************************************************************************)
EXTENDS Integers, Sequences, FiniteSets, TLC

(***************************************************************************)
(* Bounds of the model.                                                    *)
(***************************************************************************)
NumPRs == 1          \* PR numbers 1..NumPRs can be open in a repository
MaxFails == 6        \* the count of consecutive failed sweeps saturates here
MaxRestarts == 1     \* crashes of the daemon followed by a restart
MaxOps == 2          \* calls of StateManager's mutators in one behaviour
MaxRuns == 2         \* review jobs run one after the other for one PR

(***************************************************************************)
(* Program constants.                                                      *)
(***************************************************************************)
BackoffBase == 30
BackoffCeiling == 300
RateLimitInitial == 5000
STATE_VERSION == 1

None == "None"

(***************************************************************************)
(* Configuration (Config / RepoConfig, loaded once by load_config).        *)
(* Repo 1 has a branch allow-list, repo 2 admits every branch, repo 3 is   *)
(* disabled.                                                               *)
(***************************************************************************)
config_repos ==
    << [enabled |-> TRUE,  branches |-> {"main"}],
       [enabled |-> TRUE,  branches |-> {}],
       [enabled |-> FALSE, branches |-> {}] >>

max_concurrent_reviews == 1

Repos == 1..Len(config_repos)
PRNumbers == 1..NumPRs
SHAs == {"old", "new"}
ETags == {"e1"}
Branches == {"main", "dev"}
Keys == Repos \X PRNumbers

Min(a, b) == IF a < b THEN a ELSE b

(***************************************************************************)
(* StateManager: data["repos"][repo] = {etag, prs: {number: record}}.      *)
(* The reviewed_at timestamp of a record is never read by the daemon and   *)
(* is left out.                                                            *)
(***************************************************************************)
EmptyState == [r \in Repos |-> [etag |-> None, prs |-> << >>]]

get_etag(d, repo) == d[repo].etag

\* mutant: the ETag is stored for every repository
set_etag_every_repo(d, repo, etag) ==
    [r \in DOMAIN d |-> [d[r] EXCEPT !.etag = etag]]

set_etag(d, repo, etag) == [d EXCEPT ![repo].etag = etag]

get_reviewed_sha(d, repo, n) ==
    IF n \in DOMAIN d[repo].prs THEN d[repo].prs[n].head_sha ELSE None

get_review_status(d, repo, n) ==
    IF n \in DOMAIN d[repo].prs THEN d[repo].prs[n].review_status ELSE None

\* mutant: the record is written with the default status "completed"
mark_reviewed_default_status(d, repo, n, head_sha, status) ==
    [d EXCEPT ![repo].prs =
        [m \in (DOMAIN @) \cup {n} |->
            IF m = n THEN [head_sha |-> head_sha, review_status |-> "completed"]
                     ELSE @[m]]]

mark_reviewed(d, repo, n, head_sha, status) ==
    [d EXCEPT ![repo].prs =
        [m \in (DOMAIN @) \cup {n} |->
            IF m = n THEN [head_sha |-> head_sha, review_status |-> status]
                     ELSE @[m]]]

\* mutant: nothing is pruned
cleanup_closed_prs_keeps_all(d, repo, open_numbers) == d

cleanup_closed_prs(d, repo, open_numbers) ==
    [d EXCEPT ![repo].prs = [m \in (DOMAIN @) \cap open_numbers |-> @[m]]]

(***************************************************************************)
(* ReviewCoordinator.  active_reviews maps a key <<repo, number>> to the   *)
(* process handle; the handle shows the SHA the job was launched for and   *)
(* what poll() returns (exited, returncode).                               *)
(***************************************************************************)
\* mutant: every handle is dropped, whether its process has exited or not
cleanup_finished_reviews_drops_all(a) == << >>

cleanup_finished_reviews(a) ==
    [k \in {x \in DOMAIN a : ~a[x].exited} |-> a[k]]

\* mutant: the capacity test is off by one
can_start_review_off_by_one(a) ==
    Cardinality(DOMAIN cleanup_finished_reviews(a)) <= max_concurrent_reviews

can_start_review(a) ==
    Cardinality(DOMAIN cleanup_finished_reviews(a)) < max_concurrent_reviews

\* mutant: no PR is taken to be under review
is_reviewing_never(a, repo, n) == FALSE

is_reviewing(a, repo, n) == <<repo, n>> \in DOMAIN a

register(a, key, proc) ==
    [k \in (DOMAIN a) \cup {key} |-> IF k = key THEN proc ELSE a[k]]

\* mutant: a disabled repository is polled like the others
skipped_never(repo) == FALSE

\* lines 279-280: poll_repo returns at once for a disabled repository
skipped(repo) == ~config_repos[repo].enabled

(***************************************************************************)
(* Daemon.poll_repo helpers.                                               *)
(***************************************************************************)
\* mutant: a stale in_progress marker is not looked at
needs_review_ignores_status(reviewed_sha, head_sha, review_status) ==
    \/ reviewed_sha = None
    \/ reviewed_sha # head_sha

needs_review(reviewed_sha, head_sha, review_status) ==
    \/ reviewed_sha = None
    \/ reviewed_sha # head_sha
    \/ review_status = "in_progress"

\* mutant: an empty branch list admits nothing
branch_admitted_listed_only(repo, base_branch) ==
    base_branch \in config_repos[repo].branches

branch_admitted(repo, base_branch) ==
    ~(config_repos[repo].branches # {}
      /\ base_branch \notin config_repos[repo].branches)

\* mutant: a response without a PR list passes as an empty list
fetch_ok_without_list(status, has_body) == status \in {200, 0}

\* line 295: the fetch is taken as a success
fetch_ok(status, has_body) == ~(status \notin {200, 0} \/ ~has_body)

(***************************************************************************)
(* What GitHubClient._request can return for the PR list of a repository   *)
(* (lines 164-187): a PR list is a sequence of PR dicts ordered by number. *)
(***************************************************************************)
PRDicts == [number : PRNumbers, head_sha : SHAs, base_ref : Branches]

RECURSIVE pr_list(_, _)
pr_list(f, numbers) ==
    IF numbers = {} THEN << >>
    ELSE LET n == CHOOSE x \in numbers : \A y \in numbers : x <= y
         IN  <<[number |-> n, head_sha |-> f[n][1], base_ref |-> f[n][2]]>>
             \o pr_list(f, numbers \ {n})

Payloads(world) ==
    UNION { { pr_list(f, S) : f \in [S -> world.shas \X world.branches] } :
            S \in world.numbers }

\* the values the GitHub repositories can show: all of them, or a
\* repository whose PRs all have the same head and base and no ETag, or a
\* repository whose PR list never changes (every PR open at the same head)
\* and whose requests never fail
World == [shas |-> SHAs, etags |-> ETags, branches |-> Branches,
          numbers |-> SUBSET PRNumbers, faults |-> TRUE]
SmallWorld == [shas |-> {"new"}, etags |-> {}, branches |-> {"main"},
               numbers |-> SUBSET PRNumbers, faults |-> TRUE]
SteadyWorld == [shas |-> {"new"}, etags |-> {"e1"}, branches |-> {"main"},
                numbers |-> {PRNumbers}, faults |-> FALSE]

\* the responses _request returns, given the ETag the caller sent
ListResponses(world) ==
    { [status |-> 200, has_body |-> TRUE, prs |-> p, etag |-> e] :
          p \in Payloads(world), e \in world.etags \cup {None} }

OtherResponses(etag) ==
    { [status |-> 304, has_body |-> FALSE, prs |-> << >>, etag |-> etag] }
    \cup { [status |-> s, has_body |-> FALSE, prs |-> << >>, etag |-> None] :
          s \in {403, 404, 500, 0} }

\* lines 159-160 and 172-173: the answers to a conditional request for a
\* list that has an ETag: 304 when the If-None-Match header names it, the
\* list with its ETag otherwise
ConditionalResponses(etag, world) ==
    IF etag \in world.etags
    THEN { [status |-> 304, has_body |-> FALSE, prs |-> << >>, etag |-> etag] }
    ELSE { r \in ListResponses(world) : r.etag # None }

Responses(etag, world) ==
    IF world.faults THEN ListResponses(world) \cup OtherResponses(etag)
                    ELSE ConditionalResponses(etag, world)

\* rate-limit headers of an HTTP response: a remaining count alone, or an
\* exhausted limit with a reset time in the future
RateHeaders ==
    { [has_remaining |-> TRUE, remaining |-> RateLimitInitial,
       has_reset |-> FALSE, reset_ahead |-> FALSE],
      [has_remaining |-> TRUE, remaining |-> 0,
       has_reset |-> TRUE, reset_ahead |-> TRUE] }

\* mutant: the counters are set only when both headers are there
update_rate_limits_needs_both(remaining, ahead, headers) ==
    IF headers.has_remaining /\ headers.has_reset
    THEN <<headers.remaining, headers.reset_ahead>>
    ELSE <<remaining, ahead>>

\* _update_rate_limits: <<rate_limit_remaining, rate_limit_ahead>> afterwards
update_rate_limits(remaining, ahead, headers) ==
    << IF headers.has_remaining THEN headers.remaining ELSE remaining,
       IF headers.has_reset THEN headers.reset_ahead ELSE ahead >>

NoPR == [number |-> 0, head_sha |-> None, base_ref |-> None]

VARIABLES
    data,                  \* StateManager.data["repos"]
    disk,                  \* content of the state file
    active_reviews,        \* ReviewCoordinator.active_reviews
    running,               \* Daemon.running
    backoff,               \* Daemon.backoff
    rate_limit_remaining,  \* GitHubClient.rate_limit_remaining
    rate_limit_ahead,      \* time.time() < GitHubClient.rate_limit_reset
    pc,                    \* position of the main loop in Daemon.run
    repo_idx,              \* index of repo_config in the for loop of run
    prs,                   \* PRs of the response still to be looked at
    open_pr_numbers,       \* poll_repo's open_pr_numbers
    launching,             \* the PR start_review is launching
    github,                \* the values GitHub can show (never changes)
    fails,                 \* history: consecutive failed sweeps (saturating)
    restarts,              \* history: crashes followed by a restart
    fs,                    \* the files at the state path and its .tmp sibling
    sm_data,               \* StateManager.data as the JSON value it is
    sm_pc,                 \* position of the StateManager process
    sm_ops,                \* history: calls of StateManager's mutators
    rr_pc,                 \* position of a review job in run_review
    rr,                    \* the job's head_sha and output, and its history
    worktree,              \* os.path.exists(worktree_path)
    comments,              \* the comments of the PR, by id
    upserts,               \* history: the upsert_comment calls of the job
    posted,                \* history: the upsert_comment calls of all jobs
    gc_pc,                 \* position of the client in _request
    gc,                    \* the call of _request: its etag, what urlopen
                           \* did and what it returned or raised
    orphans,               \* history: jobs of a dead daemon process that
                           \* are still running
    reaped                 \* history, for the PRs it is kept for: SHA of the
                           \* last job of the PR reaped with exit code 0
                           \* while the PR's head is still that SHA

vars == <<data, disk, active_reviews, running, backoff, rate_limit_remaining,
          rate_limit_ahead, pc, repo_idx, prs, open_pr_numbers,
          launching, github, fails, restarts, reaped, fs, sm_data, sm_pc,
          sm_ops, rr_pc, rr, worktree, comments, upserts, posted,
          gc_pc, gc, orphans>>

\* the StateManager seen at the level of its file and its JSON value
store == <<fs, sm_data, sm_pc, sm_ops>>

\* the review job seen from inside
job == <<rr_pc, rr, worktree, comments, upserts, posted>>

\* what no step of Daemon.run changes
\* GitHubClient._request seen from inside
client == <<gc_pc, gc>>

env == <<github, restarts, store, job, client, orphans>>

locals == <<prs, open_pr_numbers, launching, env>>

(***************************************************************************)
(* StateManager at the level of its file (lines 80-135).  self.data is a   *)
(* JSON value: the state object {version, repos}, where repos maps a repo  *)
(* to {etag, prs} and prs maps str(pr_number) to a record with head_sha,   *)
(* reviewed_at and review_status, or, after the load of a foreign file,    *)
(* some other JSON value.  A key of prs is <<"str", n>> for the string     *)
(* str(n) and <<"int", n>> for the integer n.  An absent "etag" key is     *)
(* etag = None.                                                            *)
(***************************************************************************)
StoreRepos == {1, 2}
Times == {"t1", "t2"}

str(n) == <<"str", n>>
int(key) == key[2]

EmptyValue == [shape |-> "state", version |-> STATE_VERSION, repos |-> << >>]

\* a JSON value that is not a state object, such as [] or {"version": 1}
OtherValue == [shape |-> "other", version |-> 0, repos |-> << >>]

sm_set_etag(v, repo, etag) ==
    [v EXCEPT !.repos =
        [r \in (DOMAIN @) \cup {repo} |->
            IF r = repo
            THEN [etag |-> etag,
                  prs |-> IF repo \in DOMAIN @ THEN @[repo].prs ELSE << >>]
            ELSE @[r]]]

\* mutant: the record is stored under the integer pr_number
sm_mark_reviewed_int_key(v, repo, n, head_sha, status, now) ==
    [v EXCEPT !.repos =
        [r \in (DOMAIN @) \cup {repo} |->
            IF r = repo
            THEN LET old == IF repo \in DOMAIN @ THEN @[repo]
                            ELSE [etag |-> None, prs |-> << >>]
                 IN  [etag |-> old.etag,
                      prs |-> [k \in (DOMAIN old.prs) \cup {<<"int", n>>} |->
                                 IF k = <<"int", n>>
                                 THEN [head_sha |-> head_sha, reviewed_at |-> now,
                                       review_status |-> status]
                                 ELSE old.prs[k]]]
            ELSE @[r]]]

\* lines 113-123, with now = datetime.now(timezone.utc).isoformat()
sm_mark_reviewed(v, repo, n, head_sha, status, now) ==
    [v EXCEPT !.repos =
        [r \in (DOMAIN @) \cup {repo} |->
            IF r = repo
            THEN LET old == IF repo \in DOMAIN @ THEN @[repo]
                            ELSE [etag |-> None, prs |-> << >>]
                 IN  [etag |-> old.etag,
                      prs |-> [k \in (DOMAIN old.prs) \cup {str(n)} |->
                                 IF k = str(n)
                                 THEN [head_sha |-> head_sha, reviewed_at |-> now,
                                       review_status |-> status]
                                 ELSE old.prs[k]]]
            ELSE @[r]]]

\* mutant: the records of every repo are pruned
sm_cleanup_closed_prs_all_repos(v, repo, open_numbers) ==
    [v EXCEPT !.repos =
        [r \in DOMAIN @ |->
            [@[r] EXCEPT !.prs =
                [k \in {x \in DOMAIN @ : int(x) \in open_numbers} |-> @[k]]]]]

\* lines 128-135
sm_cleanup_closed_prs(v, repo, open_numbers) ==
    IF repo \notin DOMAIN v.repos THEN v
    ELSE [v EXCEPT !.repos[repo].prs =
             [k \in {x \in DOMAIN @ : int(x) \in open_numbers} |-> @[k]]]

\* json.dump (line 99): the document written for a value; the keys of an
\* object are written as strings, an integer key n as str(n)
json_dump(v) ==
    [v EXCEPT !.repos =
        [r \in DOMAIN @ |->
            [@[r] EXCEPT !.prs =
                [k \in {str(int(x)) : x \in DOMAIN @} |->
                    @[CHOOSE x \in DOMAIN @ : int(x) = int(k)]]]]]

\* the content of a file
Missing == [kind |-> "missing", value |-> EmptyValue]
Json(v) == [kind |-> "json", value |-> v]
\* a proper prefix of the document of v (it does not parse as JSON)
Truncated(v) == [kind |-> "truncated", value |-> v]
\* bytes that are not valid UTF-8
NotUtf8 == [kind |-> "not_utf8", value |-> EmptyValue]
\* a path that cannot be opened for reading (a directory, no permission)
Unreadable == [kind |-> "unreadable", value |-> EmptyValue]

\* lines 81-94: __init__ and _load.  json.load returns the value of a JSON
\* document whatever its shape, raises json.JSONDecodeError for text that
\* is not JSON and UnicodeDecodeError (not caught) for bytes that are not
\* text; open raises OSError.
load(content) ==
    CASE content.kind = "missing" -> [raised |-> FALSE, data |-> EmptyValue]
      [] content.kind = "json" -> [raised |-> FALSE, data |-> content.value]
      [] content.kind \in {"truncated", "unreadable"} ->
             [raised |-> FALSE, data |-> EmptyValue]
      [] content.kind = "not_utf8" -> [raised |-> TRUE, data |-> EmptyValue]

\* Config.state_file (line 50) and Path.with_suffix(".tmp") of it (line 97)
state_path == "state.json"

\* mutant: the state is written in place
tmp_path_in_place(path) == path

tmp_path(path) == "state.tmp"

Paths == {state_path, tmp_path(state_path)}

\* the daemon specifications do not look at the files
StoreOff ==
    /\ fs = [p \in Paths |-> Missing]
    /\ sm_data = EmptyValue
    /\ sm_pc = "down"
    /\ sm_ops = 0

(***************************************************************************)
(* run_review.py: the review job that start_review launches.  A text is a  *)
(* sequence of segments; a segment is a run of characters of one part of   *)
(* a comment, with its length, and it is whole unless a slice cut it.      *)
(***************************************************************************)
MAX_COMMENT_LENGTH == 65000

Skills == {"review-pr", "security"}

skill == "review-pr"

\* a SHA is a sequence of characters; no --head-sha (None) and the empty
\* string are equally false at line 194, and both are the empty sequence
NoSHA == << >>

a_sha == <<"a", "b", "c", "1", "2", "3", "4", "d", "e", "f", "5", "6", "7", "8">>

HeadSHAs == {NoSHA, a_sha}

seg(part, of, len) == [part |-> part, of |-> of, len |-> len, whole |-> TRUE]

RECURSIVE text_len(_)
text_len(t) == IF t = << >> THEN 0 ELSE Head(t).len + text_len(Tail(t))

\* output[:n]
RECURSIVE slice(_, _)
slice(t, n) ==
    IF t = << >> \/ n <= 0 THEN << >>
    ELSE IF Head(t).len <= n
         THEN <<Head(t)>> \o slice(Tail(t), n - Head(t).len)
         ELSE << [Head(t) EXCEPT !.len = n, !.whole = FALSE] >>

\* COMMENT_MARKER_TEMPLATE.format(skill=skill)
marker(s) ==
    << seg("marker", s, 30 + (IF s = "review-pr" THEN 9 ELSE 8)) >>

\* body.startswith(marker)
startswith(t, m) == t # << >> /\ Head(t) = m[1]

truncation_notice == << seg("truncation_notice", None, 56) >>

\* mutant: the output is cut at the limit and the notice comes on top
truncate_output_cut_at_limit(output) ==
    IF text_len(output) <= MAX_COMMENT_LENGTH THEN output
    ELSE slice(output, MAX_COMMENT_LENGTH) \o truncation_notice

truncate_output(output) ==
    IF text_len(output) <= MAX_COMMENT_LENGTH THEN output
    ELSE slice(output, MAX_COMMENT_LENGTH - text_len(truncation_notice))
             \o truncation_notice

\* datetime.now(timezone.utc).strftime("%Y-%m-%d %H:%M UTC")
utc_now == << "%Y-%m-%d %H:%M UTC" >>

\* mutant: the whole SHA goes into the footer
footer_parts_whole_sha(head_sha) ==
    (IF head_sha # << >>
     THEN << [phrase |-> "Reviewed commit:", value |-> head_sha,
              len |-> 18 + Len(head_sha) + 1] >>
     ELSE << >>)
    \o << [phrase |-> "at", value |-> utc_now, len |-> 3 + 20] >>

\* lines 192-196: footer_parts of upsert_comment, head_sha[:7] when a SHA
\* is given, and the time
footer_parts(head_sha) ==
    (IF head_sha # << >>
     THEN << [phrase |-> "Reviewed commit:",
              value |-> SubSeq(head_sha, 1, Min(7, Len(head_sha))),
              len |-> 18 + Min(7, Len(head_sha)) + 1] >>
     ELSE << >>)
    \o << [phrase |-> "at", value |-> utc_now, len |-> 3 + 20] >>

\* line 197: "\n\n---\n*" , the parts joined by one space, "*"
footer(head_sha) ==
    LET parts == footer_parts(head_sha)
        joined == IF Len(parts) = 2 THEN parts[1].len + 1 + parts[2].len
                  ELSE parts[1].len
    IN << seg("footer", IF Len(parts) = 2 THEN "Reviewed commit" ELSE "at",
              7 + joined + 1) >>

newline == << seg("newline", None, 1) >>

\* mutant: the marker is put below the body
full_text_marker_below(body, s, head_sha) ==
    body \o newline \o marker(s) \o footer(head_sha)

\* full_body of upsert_comment before it is truncated
full_text(body, s, head_sha) ==
    marker(s) \o newline \o body \o footer(head_sha)

\* the bodies run_review hands to upsert_comment
skill_not_found == << seg("Skill file not found", skill, 132) >>
timed_out == << seg("Review timed out after 1 hour.", None, 62) >>
review_failed == << seg("Review failed", "Exception", 56) >>
exited_no_output == << seg("Claude exited with no output", None, 28) >>
no_output == << seg("Review completed but produced no output.", None, 40) >>

\* lengths of what the reviewer prints: nothing, a review, a review that
\* fills a comment to the limit, one character more, and far more
OutputLengths ==
    {0, 10,
     MAX_COMMENT_LENGTH - text_len(full_text(<< >>, skill, a_sha)),
     MAX_COMMENT_LENGTH - text_len(full_text(<< >>, skill, a_sha)) + 1,
     MAX_COMMENT_LENGTH + 500}

\* what a stream of the reviewer holds: "" , white space only, or text
Streams ==
    { << >>, << seg("stdout", "blank", 3) >> }
    \cup { << seg("stdout", "text", n) >> : n \in OutputLengths \ {0} }

Stderrs == { << >>, << seg("stderr", "text", 10) >> }

\* output.strip() is empty
blank(t) == \A i \in DOMAIN t : t[i].of = "blank"

\* lines 114-122: the text run_review posts for a finished reviewer
review_output(returncode, stdout, stderr) ==
    LET output == IF returncode # 0
                  THEN IF stdout # << >> THEN stdout
                       ELSE IF stderr # << >> THEN stderr
                       ELSE exited_no_output
                  ELSE stdout
    IN IF blank(output) THEN no_output ELSE output

(***************************************************************************)
(* GitHubClient._request step by step (lines 146-187): how a call of       *)
(* urlopen ends, and what _request makes of it.                            *)
(***************************************************************************)
\* X-RateLimit-Remaining and X-RateLimit-Reset of a response, each of them
\* there or not; the reset time lies ahead of the clock or not
AllRateHeaders ==
    { h \in [has_remaining : BOOLEAN, remaining : {0, 42},
             has_reset : BOOLEAN, reset_ahead : BOOLEAN] :
        /\ ~h.has_remaining => h.remaining = 0
        /\ ~h.has_reset => ~h.reset_ahead }

NoHeaders ==
    [has_remaining |-> FALSE, remaining |-> 0,
     has_reset |-> FALSE, reset_ahead |-> FALSE]

\* a response (urlopen returns only for a 2xx status) whose body is a JSON
\* document, is not one, ends before its Content-Length, or stops coming;
\* an HTTPError; or no response at all: the connection fails (URLError),
\* nothing comes within the 30 seconds (TimeoutError), or the server closes
\* the connection without a response (http.client.RemoteDisconnected)
Outcomes ==
    { [kind |-> "response", code |-> 200, body |-> b, etag |-> e, headers |-> h] :
          b \in {"json", "not json", "cut short", "stalls"},
          e \in {None, "e2"}, h \in AllRateHeaders }
    \cup { [kind |-> "HTTPError", code |-> c, body |-> "none", etag |-> None,
            headers |-> h] :
          c \in {304, 403, 404, 500}, h \in AllRateHeaders }
    \cup { [kind |-> k, code |-> 0, body |-> "none", etag |-> None,
            headers |-> NoHeaders] :
          k \in {"URLError", "TimeoutError", "RemoteDisconnected"} }

NoOutcome ==
    [kind |-> "none", code |-> 0, body |-> "none", etag |-> None,
     headers |-> NoHeaders]

returns(status, payload, etag, rl) ==
    [raised |-> None, status |-> status, payload |-> payload, etag |-> etag,
     remaining |-> rl[1], ahead |-> rl[2]]

raises(exc, rl) ==
    [raised |-> exc, status |-> 0, payload |-> None, etag |-> None,
     remaining |-> rl[1], ahead |-> rl[2]]

\* lines 164-187: what _request returns or raises for the outcome o of
\* urlopen, and the rate-limit counters afterwards
request(etag, remaining, ahead, o) ==
    LET old == <<remaining, ahead>>
        new == update_rate_limits(remaining, ahead, o.headers)
    IN CASE o.kind = "response" ->
                CASE o.body = "json" -> returns(o.code, "list", o.etag, new)
                  [] o.body = "stalls" -> returns(0, None, None, new)
                  [] o.body = "cut short" -> raises("IncompleteRead", new)
                  [] OTHER -> raises("JSONDecodeError", new)
         [] o.kind = "HTTPError" ->
                IF o.code = 304 THEN returns(304, None, etag, new)
                ELSE IF o.code = 403 /\ new[1] = 0
                     THEN returns(403, None, None, new)
                ELSE IF o.code = 404 THEN returns(404, None, None, new)
                ELSE returns(o.code, None, None, new)
         [] o.kind \in {"URLError", "TimeoutError"} ->
                returns(0, None, None, old)
         [] OTHER -> raises(o.kind, old)

\* mutant: the request goes out whatever the counters say
must_wait_never(remaining, ahead) == FALSE

\* line 147: the rate limit is used up and its reset time lies ahead
must_wait(remaining, ahead) == ahead /\ remaining = 0

NoCall ==
    [etag |-> None, outcome |-> NoOutcome, waited |-> FALSE,
     result |-> raises(None, <<0, FALSE>>)]

\* the daemon specifications take _request as one step
ClientOff ==
    /\ gc_pc = "off"
    /\ gc = NoCall

\* find_existing_comment returns None, and 0 is as false as None in
\* "if existing_id" (line 203)
NoId == 0

\* mutant: the search never finds the marked comment
find_existing_comment_never_finds(cs, s, outcome) == NoId

\* the id of the first comment whose body starts with the marker; None
\* when there is none or when the listing fails in any way
find_existing_comment(cs, s, outcome) ==
    LET found == { i \in DOMAIN cs : startswith(cs[i], marker(s)) }
    IN IF outcome = "ok" /\ found # {}
       THEN CHOOSE i \in found : \A j \in found : i <= j
       ELSE NoId

\* how a call of gh ends: exit code 0, another exit code, or the 60 seconds
\* of subprocess.run are over
GhOutcomes == {"ok", "nonzero", "TimeoutExpired"}

UpsertOutcomes ==
    [find : {"ok", "fail"}, update : GhOutcomes, create : GhOutcomes]

\* upsert_comment on the comments cs of the PR (a comment's id is its
\* index): the comments afterwards, the calls it made, and what it raised
upsert_comment(cs, body, s, head_sha, o) ==
    LET raw == full_text(body, s, head_sha)
        full_body == truncate_output(raw)
        existing_id == find_existing_comment(cs, s, o.find)
        patches == existing_id # NoId
        updated == IF patches /\ o.update = "ok"
                   THEN [cs EXCEPT ![existing_id] = full_body] ELSE cs
        creates == ~patches \/ o.update = "nonzero"
    IN [comments |-> IF creates /\ o.create = "ok"
                     THEN Append(updated, full_body) ELSE updated,
        body |-> body,
        raw |-> raw,
        full_body |-> full_body,
        footer |-> footer_parts(head_sha),
        existing_id |-> existing_id,
        update |-> IF patches THEN o.update ELSE "none",
        updates |-> IF patches THEN <<full_body>> ELSE << >>,
        creates |-> IF creates THEN <<full_body>> ELSE << >>,
        raised |-> IF patches /\ o.update = "TimeoutExpired" THEN "TimeoutExpired"
                   ELSE IF creates /\ o.create = "TimeoutExpired" THEN "TimeoutExpired"
                   ELSE None,
        ok |-> /\ o.find = "ok"
               /\ patches => o.update = "ok"
               /\ creates => o.create = "ok"]

\* mutant: an exception of the removal leaves the finally block
cleanup_without_try(exists, outcome) ==
    [existed |-> exists, attempted |-> exists, swallowed |-> FALSE,
     raised |-> IF exists /\ outcome \in {"TimeoutExpired", "OSError"}
                THEN outcome ELSE None]

\* the finally block of run_review (lines 144-151): whether the removal is
\* attempted and what leaves the block
cleanup(exists, outcome) ==
    [existed |-> exists, attempted |-> exists,
     swallowed |-> exists /\ outcome \in {"TimeoutExpired", "OSError"},
     raised |-> None]

NoCleanup ==
    [existed |-> FALSE, attempted |-> FALSE, swallowed |-> FALSE,
     raised |-> "not there yet"]

\* lines 216-221 and 239-243: the URL upsert_comment returns, None when
\* the comment was not posted or gh did not print its URL
comment_url(u, printed) ==
    IF printed /\ (u.update = "ok" \/ (u.creates # << >> /\ u.ok))
    THEN "html_url" ELSE None

\* how `gh pr view` of get_pr_title and urlopen of the webhook end
NotifyOutcomes ==
    [title : {"ok", "nonzero", "TimeoutExpired", "OSError"},
     post : {"ok", "HTTPError", "URLError", "TimeoutError", "ValueError"}]

\* mutant: the POST is made outside the try block
notify_review_posted_post_uncaught(webhook_url, url, o) ==
    IF ~webhook_url
    THEN [called |-> TRUE, webhook_url |-> FALSE, comment_url |-> url,
          lookups |-> 0, button |-> FALSE, posts |-> 0, logged |-> FALSE,
          raised |-> None]
    ELSE [called |-> TRUE, webhook_url |-> TRUE, comment_url |-> url,
          lookups |-> 1, button |-> url # None, posts |-> 1,
          logged |-> o.title \in {"TimeoutExpired", "OSError"},
          raised |-> IF o.post # "ok" THEN o.post ELSE None]

\* slack_notify.notify_review_posted (lines 75-127) with get_pr_title
\* (lines 56-72): what it did and what it raised.  webhook_url is whether
\* SLACK_WEBHOOK_URL is set to a non-empty value
notify_review_posted(webhook_url, url, o) ==
    IF ~webhook_url
    THEN [called |-> TRUE, webhook_url |-> FALSE, comment_url |-> url,
          lookups |-> 0, button |-> FALSE, posts |-> 0, logged |-> FALSE,
          raised |-> None]
    ELSE [called |-> TRUE, webhook_url |-> TRUE, comment_url |-> url,
          lookups |-> 1, button |-> url # None, posts |-> 1,
          logged |-> o.title \in {"TimeoutExpired", "OSError"}
                     \/ o.post # "ok",
          raised |-> None]

NoNotify ==
    [called |-> FALSE, webhook_url |-> FALSE, comment_url |-> None,
     lookups |-> 0, button |-> FALSE, posts |-> 0, logged |-> FALSE,
     raised |-> None]

NoRun ==
    [head_sha |-> NoSHA, class |-> "none", exc |-> None, output |-> << >>,
     cleanup |-> NoCleanup, notify |-> NoNotify]

NoHistory == [runs |-> 0, calls |-> 0, all_ok |-> TRUE, last |-> << >>]

\* the daemon specifications do not look inside the review job
JobOff ==
    /\ rr_pc = "off"
    /\ rr = NoRun
    /\ worktree = FALSE
    /\ comments = << >>
    /\ upserts = << >>
    /\ posted = NoHistory

PRRecords == [head_sha : SHAs, review_status : {"in_progress", "completed"}]

\* the states a state file written by an earlier run can hold
LoadableStates ==
    { d \in [Repos -> [etag : ETags \cup {None},
                       prs : UNION { [S -> PRRecords] : S \in SUBSET PRNumbers }]] :
        \A r \in Repos : ~config_repos[r].enabled => d[r] = EmptyState[r] }

Started ==
    /\ disk = data
    /\ orphans = {}
    /\ active_reviews = << >>
    /\ running = TRUE
    /\ backoff = BackoffBase
    /\ rate_limit_remaining = RateLimitInitial
    /\ rate_limit_ahead = FALSE
    /\ pc = "while"
    /\ repo_idx = 1
    /\ prs = << >>
    /\ open_pr_numbers = {}
    /\ launching = NoPR
    /\ fails = 0
    /\ restarts = 0

\* any state file, any GitHub, no history of reaped jobs
Init ==
    /\ data \in LoadableStates
    /\ github = World
    /\ reaped = << >>
    /\ Started
    /\ StoreOff
    /\ JobOff
    /\ ClientOff

\* the same with the history of reaped jobs
InitH ==
    /\ data \in LoadableStates
    /\ github = World
    /\ reaped = [k \in Keys |-> None]
    /\ Started
    /\ StoreOff
    /\ JobOff
    /\ ClientOff

\* no state file and a small GitHub, with or without faults
InitSteady ==
    /\ data = EmptyState
    /\ github \in {SmallWorld, SteadyWorld}
    /\ reaped = << >>
    /\ Started
    /\ StoreOff
    /\ JobOff
    /\ ClientOff

\* any state file, and a GitHub whose lists carry no ETag or one whose list
\* never changes and always carries the same ETag
InitEtag ==
    /\ data \in LoadableStates
    /\ github \in {SmallWorld, SteadyWorld}
    /\ reaped = << >>
    /\ Started
    /\ StoreOff
    /\ JobOff
    /\ ClientOff

\* no state file and the small GitHub
InitSmall ==
    /\ data = EmptyState
    /\ github = SmallWorld
    /\ reaped = << >>
    /\ Started
    /\ StoreOff
    /\ JobOff
    /\ ClientOff


(***************************************************************************)
(* Daemon.run helpers.                                                     *)
(***************************************************************************)
\* mutant: the polling loop does not look at the running flag
keep_polling_always(flag) == TRUE

\* line 341: the condition of the polling loop
keep_polling(flag) == flag

\* mutant: the for loop does not look at the running flag
sweep_goes_on_always(flag) == TRUE

\* lines 344-345: the for loop breaks when running is cleared
sweep_goes_on(flag) == flag

\* mutant: the doubling has no ceiling
next_backoff_uncapped(b) == b * 2

\* line 355: the backoff after one more failed sweep
next_backoff(b) == Min(b * 2, BackoffCeiling)

\* mutant: the daemon does not wait for the active reviews
drained_without_waiting(a) == TRUE

\* line 362: the drain loop is left when no review is tracked any more
drained(a) == a = << >>

(***************************************************************************)
(* History variables.                                                      *)
(***************************************************************************)
\* jobs reaped with exit code 0 are remembered with their SHA
note_reaped(h, a) ==
    [k \in DOMAIN h |->
        IF k \in DOMAIN a /\ a[k].exited /\ a[k].returncode = 0
        THEN a[k].head_sha ELSE h[k]]

\* a poll that sees another head for the PR forgets the reaped SHA
note_head(h, key, head_sha) ==
    [k \in DOMAIN h |-> IF k = key /\ h[k] # head_sha THEN None ELSE h[k]]

\* PRs that are no longer open are forgotten
note_closed(h, repo, open_numbers) ==
    [k \in DOMAIN h |-> IF k[1] = repo /\ k[2] \notin open_numbers THEN None ELSE h[k]]

(***************************************************************************)
(* Daemon.run, lines 341-359: the polling loop.                            *)
(***************************************************************************)
\* line 341: while self.running
WhileRunning ==
    /\ pc = "while"
    /\ IF keep_polling(running) THEN pc' = "for" /\ repo_idx' = 1
                                ELSE pc' = "drain" /\ UNCHANGED repo_idx
    /\ UNCHANGED <<data, disk, active_reviews, running, backoff,
                   rate_limit_remaining, rate_limit_ahead, locals, fails, reaped>>

\* lines 343-345: the for loop ends, or breaks when running is cleared
ForDone ==
    /\ pc = "for"
    /\ repo_idx > Len(config_repos) \/ ~sweep_goes_on(running)
    /\ pc' = "sweep_done"
    /\ UNCHANGED <<data, disk, active_reviews, running, backoff, repo_idx,
                   rate_limit_remaining, rate_limit_ahead, locals, fails, reaped>>

\* lines 346, 279-283, 147-150: poll_repo begins for the next repo
PollRepo ==
    /\ pc = "for"
    /\ repo_idx <= Len(config_repos) /\ sweep_goes_on(running)
    /\ IF skipped(repo_idx)
       THEN pc' = "for" /\ repo_idx' = repo_idx + 1
       ELSE /\ pc' = IF rate_limit_ahead /\ rate_limit_remaining = 0
                     THEN "rate_limit_wait" ELSE "request"
            /\ UNCHANGED repo_idx
    /\ UNCHANGED <<data, disk, active_reviews, running, backoff,
                   rate_limit_remaining, rate_limit_ahead, locals, fails, reaped>>

\* line 150: time.sleep(wait) returns at the reset time
RateLimitWake ==
    /\ pc = "rate_limit_wait"
    /\ rate_limit_ahead' = FALSE
    /\ pc' = "request"
    /\ UNCHANGED <<data, disk, active_reviews, running, backoff, repo_idx,
                   rate_limit_remaining, locals, fails, reaped>>

\* poll_repo returns to the for loop
return ==
    /\ pc' = "for"
    /\ repo_idx' = repo_idx + 1
    /\ prs' = << >> /\ open_pr_numbers' = {}
    /\ launching' = NoPR
    /\ UNCHANGED env

\* lines 152-187 and 285-302: the request is sent, _request returns the
\* response r (with rate-limit headers h) and poll_repo acts on its status
Fetched(r, h) ==
    /\ pc = "request"
    /\ LET rl == IF r.status = 0
                 THEN <<rate_limit_remaining, rate_limit_ahead>>
                 ELSE update_rate_limits(rate_limit_remaining,
                                         rate_limit_ahead, h)
       IN  rate_limit_remaining' = rl[1] /\ rate_limit_ahead' = rl[2]
    /\ IF r.status = 304 \/ r.status = 404 \/ ~fetch_ok(r.status, r.has_body)
       THEN /\ return
            /\ UNCHANGED data
       ELSE /\ data' = IF r.etag # None THEN set_etag(data, repo_idx, r.etag)
                                        ELSE data
            /\ open_pr_numbers' = {}
            /\ prs' = r.prs
            /\ pc' = "prs"
            /\ UNCHANGED <<repo_idx, launching, env>>
    /\ UNCHANGED <<disk, active_reviews, running, backoff, fails, reaped>>

Request ==
    /\ pc = "request"
    /\ \E r \in Responses(get_etag(data, repo_idx), github), h \in RateHeaders :
           Fetched(r, h)

\* the sweep is left by an exception (caught at line 351)
raise ==
    /\ pc' = "except"
    /\ fails' = Min(fails + 1, MaxFails)
    /\ prs' = << >> /\ open_pr_numbers' = {}
    /\ launching' = NoPR
    /\ UNCHANGED env

\* lines 165-168: reading or decoding the response raises an exception that
\* _request does not catch (http.client.IncompleteRead, json.JSONDecodeError)
RequestRaises ==
    /\ pc = "request"
    /\ github.faults
    /\ raise
    /\ UNCHANGED <<data, disk, active_reviews, running, backoff, repo_idx,
                   rate_limit_remaining, rate_limit_ahead, reaped>>

\* line 328: all PRs of the response were looked at
PRsDone ==
    /\ pc = "prs"
    /\ prs = << >>
    /\ data' = cleanup_closed_prs(data, repo_idx, open_pr_numbers)
    /\ reaped' = note_closed(reaped, repo_idx, open_pr_numbers)
    /\ return
    /\ UNCHANGED <<disk, active_reviews, running, backoff,
                   rate_limit_remaining, rate_limit_ahead, fails>>

\* lines 304-326 with can_start_review (223-225) and start_review up to the
\* save (230-240): one PR of the response
NextPR ==
    /\ pc = "prs"
    /\ prs # << >>
    /\ LET pr == Head(prs)
           key == <<repo_idx, pr.number>>
           reviewed_sha == get_reviewed_sha(data, repo_idx, pr.number)
           review_status == get_review_status(data, repo_idx, pr.number)
           seen == note_head(reaped, key, pr.head_sha)
       IN  /\ open_pr_numbers' = open_pr_numbers \cup {pr.number}
           /\ prs' = Tail(prs)
           /\ IF ~branch_admitted(repo_idx, pr.base_ref)
                 \/ is_reviewing(active_reviews, repo_idx, pr.number)
                 \/ ~needs_review(reviewed_sha, pr.head_sha, review_status)
              THEN /\ reaped' = seen
                   /\ UNCHANGED <<data, disk, active_reviews, launching, pc>>
              ELSE /\ active_reviews' = cleanup_finished_reviews(active_reviews)
                   /\ reaped' = note_reaped(seen, active_reviews)
                   /\ IF can_start_review(active_reviews)
                      THEN /\ data' = mark_reviewed(data, repo_idx, pr.number,
                                                    pr.head_sha, "in_progress")
                           /\ disk' = data'
                           /\ launching' = pr
                           /\ pc' = "popen"
                      ELSE UNCHANGED <<data, disk, launching, pc>>
    /\ UNCHANGED <<running, backoff, repo_idx, rate_limit_remaining,
                   rate_limit_ahead, env, fails>>

\* lines 242-259: the review process is spawned and registered
Popen ==
    /\ pc = "popen"
    /\ active_reviews' =
           register(active_reviews, <<repo_idx, launching.number>>,
                    [head_sha |-> launching.head_sha, exited |-> FALSE,
                     returncode |-> 0])
    /\ launching' = NoPR
    /\ pc' = "prs"
    /\ UNCHANGED <<data, disk, running, backoff, repo_idx,
                   rate_limit_remaining, rate_limit_ahead, prs,
                   open_pr_numbers, env, fails, reaped>>

\* line 242: subprocess.Popen raises OSError
PopenRaises ==
    /\ pc = "popen"
    /\ github.faults
    /\ raise
    /\ UNCHANGED <<data, disk, active_reviews, running, backoff, repo_idx,
                   rate_limit_remaining, rate_limit_ahead, reaped>>

\* lines 348-349 and 358-359: the sweep ended without an exception
SweepDone ==
    /\ pc = "sweep_done"
    /\ disk' = data
    /\ backoff' = BackoffBase
    /\ fails' = 0
    /\ pc' = IF running THEN "interval_sleep" ELSE "while"
    /\ UNCHANGED <<data, active_reviews, running, repo_idx,
                   rate_limit_remaining, rate_limit_ahead, locals, reaped>>

\* line 359: time.sleep(interval_seconds) returns
IntervalWake ==
    /\ pc = "interval_sleep"
    /\ pc' = "while"
    /\ UNCHANGED <<data, disk, active_reviews, running, backoff, repo_idx,
                   rate_limit_remaining, rate_limit_ahead, locals, fails, reaped>>

\* lines 351-356: time.sleep(self.backoff) returns and the backoff doubles
BackoffWake ==
    /\ pc = "except"
    /\ backoff' = next_backoff(backoff)
    /\ pc' = "while"
    /\ UNCHANGED <<data, disk, active_reviews, running, repo_idx,
                   rate_limit_remaining, rate_limit_ahead, locals, fails, reaped>>

(***************************************************************************)
(* Daemon.run, lines 361-368: the shutdown drain.                          *)
(***************************************************************************)
\* lines 362-365: one round of the drain loop
Drain ==
    /\ pc = "drain"
    /\ IF drained(active_reviews)
       THEN /\ pc' = "final_save"
            /\ UNCHANGED <<active_reviews, reaped>>
       ELSE /\ active_reviews' = cleanup_finished_reviews(active_reviews)
            /\ reaped' = note_reaped(reaped, active_reviews)
            /\ pc' = IF ~drained(active_reviews') THEN "drain_sleep" ELSE "drain"
    /\ UNCHANGED <<data, disk, running, backoff, repo_idx,
                   rate_limit_remaining, rate_limit_ahead, locals, fails>>

\* line 365: time.sleep(5) returns
DrainWake ==
    /\ pc = "drain_sleep"
    /\ pc' = "drain"
    /\ UNCHANGED <<data, disk, active_reviews, running, backoff, repo_idx,
                   rate_limit_remaining, rate_limit_ahead, locals, fails, reaped>>

\* lines 367-368: the final save, then run returns
FinalSave ==
    /\ pc = "final_save"
    /\ disk' = data
    /\ pc' = "stopped"
    /\ UNCHANGED <<data, active_reviews, running, backoff, repo_idx,
                   rate_limit_remaining, rate_limit_ahead, locals, fails, reaped>>

(***************************************************************************)
(* The environment: termination signals and the review job processes.      *)
(***************************************************************************)
\* lines 274-276: SIGTERM or SIGINT is delivered
HandleSignal ==
    /\ pc # "stopped"
    /\ running
    /\ running' = FALSE
    /\ UNCHANGED <<data, disk, active_reviews, backoff, repo_idx, pc,
                   rate_limit_remaining, rate_limit_ahead, locals, fails, reaped>>

\* mutant: the job records the end of its review in the state file
JobExit_records_completion(key) ==
    /\ key \in DOMAIN active_reviews
    /\ ~active_reviews[key].exited
    /\ \E code \in {0, 1} :
         active_reviews' =
             [active_reviews EXCEPT ![key] =
                 [@ EXCEPT !.exited = TRUE, !.returncode = code]]
    /\ disk' = mark_reviewed(disk, key[1], key[2],
                             active_reviews[key].head_sha, "completed")
    /\ UNCHANGED <<data, running, backoff, repo_idx, pc,
                   rate_limit_remaining, rate_limit_ahead, locals, fails, reaped>>

\* a launched run_review.py process exits with some code
JobExit(key) ==
    /\ key \in DOMAIN active_reviews
    /\ ~active_reviews[key].exited
    /\ \E code \in {0, 1} :
         active_reviews' =
             [active_reviews EXCEPT ![key] =
                 [@ EXCEPT !.exited = TRUE, !.returncode = code]]
    /\ UNCHANGED <<data, disk, running, backoff, repo_idx, pc,
                   rate_limit_remaining, rate_limit_ahead, locals, fails, reaped>>

JobExits == \E key \in Keys : JobExit(key)

DaemonStep ==
    \/ WhileRunning \/ ForDone \/ PollRepo \/ RateLimitWake \/ Request
    \/ RequestRaises \/ PRsDone \/ NextPR
    \/ Popen \/ PopenRaises \/ SweepDone \/ IntervalWake \/ BackoffWake
    \/ Drain \/ DrainWake \/ FinalSave

Next == DaemonStep \/ HandleSignal \/ JobExits

\* the daemon process dies at any point of run (the jobs it launched live on
\* in their own sessions, line 256) and is started again: Daemon.__init__
\* (lines 263-269) loads the state file and starts with no active review
Restarted ==
    /\ pc # "stopped"
    /\ restarts < MaxRestarts
    /\ restarts' = restarts + 1
    /\ data' = disk
    /\ active_reviews' = << >>
    /\ running' = TRUE
    /\ backoff' = BackoffBase
    /\ rate_limit_remaining' = RateLimitInitial
    /\ rate_limit_ahead' = FALSE
    /\ pc' = "while"
    /\ repo_idx' = 1
    /\ prs' = << >> /\ open_pr_numbers' = {}
    /\ launching' = NoPR
    /\ fails' = 0
    /\ UNCHANGED <<disk, github, reaped, store, job, client>>

\* the same, without a record of the jobs that live on
Crash == Restarted /\ UNCHANGED orphans

\* the jobs of the dead process that have not exited yet
left_running(a) == { key \in DOMAIN a : ~a[key].exited }

\* the same, with a record of the jobs that live on
CrashLeavingJobs ==
    /\ Restarted
    /\ orphans' = orphans \cup left_running(active_reviews)

\* a job of a dead daemon process exits
OrphanExit(key) ==
    /\ key \in orphans
    /\ orphans' = orphans \ {key}
    /\ UNCHANGED <<data, disk, active_reviews, running, backoff, repo_idx, pc,
                   rate_limit_remaining, rate_limit_ahead, prs,
                   open_pr_numbers, launching, github, restarts, store, job,
                   client, fails, reaped>>

OrphanExits == \E key \in Keys : OrphanExit(key)

NextOrphans == Next \/ CrashLeavingJobs \/ OrphanExits

NextRestart == Next \/ Crash

Spec == Init /\ [][Next]_vars

SpecH == InitH /\ [][Next]_vars

\* conditional requests against the two small GitHubs
EtagSpec == InitEtag /\ [][Next]_vars

\* the main loop always takes its next step (requests time out, sleeps
\* return) and every launched review job exits in the end
Fairness ==
    /\ WF_vars(DaemonStep)
    /\ \A key \in Keys : WF_vars(JobExit(key))

FairSpec == InitSmall /\ [][Next]_vars /\ Fairness

\* the same with crashes and restarts, and with the steady GitHub too
RestartSpec == InitSteady /\ [][NextRestart]_vars /\ Fairness

\* crashes and restarts with the jobs of the dead process on record
OrphanSpec == InitSteady /\ [][NextOrphans]_vars

(***************************************************************************)
(* The StateManager process on its own: it is started on some state file,  *)
(* its operations are called, it saves, it is killed and started again.    *)
(***************************************************************************)
StoreRecords ==
    [head_sha : SHAs, reviewed_at : Times,
     review_status : {"in_progress", "completed"}]

\* the state objects that set_etag, mark_reviewed and cleanup_closed_prs
\* build
StateValues ==
    { [shape |-> "state", version |-> STATE_VERSION, repos |-> f] :
        f \in UNION { [R -> [etag : ETags \cup {None},
                             prs : UNION { [K -> StoreRecords] :
                                           K \in SUBSET {str(n) : n \in PRNumbers} }]] :
                      R \in SUBSET StoreRepos } }

\* the files a StateManager can be started on: none, a state file written
\* by an earlier run, or a file that is not one
InitialFiles ==
    {Missing, Truncated(EmptyValue), NotUtf8, Unreadable, Json(OtherValue)}
    \cup { Json(v) : v \in StateValues }

InitStore ==
    /\ data = EmptyState
    /\ github = SmallWorld
    /\ reaped = << >>
    /\ Started
    /\ fs \in { [p \in Paths |-> IF p = state_path THEN c ELSE Missing] :
                 c \in InitialFiles }
    /\ sm_data = EmptyValue
    /\ sm_pc = "down"
    /\ sm_ops = 0
    /\ JobOff
    /\ ClientOff

daemon == <<data, disk, active_reviews, running, backoff, rate_limit_remaining,
            rate_limit_ahead, pc, repo_idx, prs, open_pr_numbers, launching,
            github, fails, reaped, orphans>>

\* lines 81-94: StateManager(path)
StoreStart ==
    /\ sm_pc = "down"
    /\ LET l == load(fs[state_path])
       IN  /\ sm_data' = l.data
           /\ sm_pc' = IF l.raised THEN "failed" ELSE "loaded"
    /\ UNCHANGED <<fs, sm_ops, restarts, daemon, job, client>>

\* the StateManager is constructed and not in the middle of a save
constructed == sm_pc \in {"loaded", "idle"}

\* lines 105-108
StoreSetEtag ==
    /\ constructed /\ sm_data.shape = "state"
    /\ sm_ops < MaxOps
    /\ \E repo \in StoreRepos, etag \in ETags :
           sm_data' = sm_set_etag(sm_data, repo, etag)
    /\ sm_pc' = "idle"
    /\ sm_ops' = sm_ops + 1
    /\ UNCHANGED <<fs, restarts, daemon, job, client>>

\* lines 113-123
StoreMarkReviewed ==
    /\ constructed /\ sm_data.shape = "state"
    /\ sm_ops < MaxOps
    /\ \E repo \in StoreRepos, n \in PRNumbers, head_sha \in SHAs,
          status \in {"in_progress", "completed"}, now \in Times :
           sm_data' = sm_mark_reviewed(sm_data, repo, n, head_sha, status, now)
    /\ sm_pc' = "idle"
    /\ sm_ops' = sm_ops + 1
    /\ UNCHANGED <<fs, restarts, daemon, job, client>>

\* lines 128-135
StoreCleanup ==
    /\ constructed /\ sm_data.shape = "state"
    /\ sm_ops < MaxOps
    /\ \E repo \in StoreRepos, open_numbers \in SUBSET PRNumbers :
           sm_data' = sm_cleanup_closed_prs(sm_data, repo, open_numbers)
    /\ sm_pc' = "idle"
    /\ sm_ops' = sm_ops + 1
    /\ UNCHANGED <<fs, restarts, daemon, job, client>>

\* self.data["repos"] raises TypeError or KeyError on a value that is not a
\* state object (lines 103, 106, 111, 114, 126, 129)
StoreOpRaises ==
    /\ constructed /\ sm_data.shape # "state"
    /\ sm_pc' = "op_raised"
    /\ UNCHANGED <<fs, sm_data, sm_ops, restarts, daemon, job, client>>

\* lines 97-98: the .tmp file is opened for writing; what is in it before
\* the dump is over is a prefix of the document
SaveOpen ==
    /\ constructed
    /\ fs' = [fs EXCEPT ![tmp_path(state_path)] = Truncated(json_dump(sm_data))]
    /\ sm_pc' = "save_opened"
    /\ UNCHANGED <<sm_data, sm_ops, restarts, daemon, job, client>>

\* line 99 and the end of the with block: the document is written and closed
SaveDump ==
    /\ sm_pc = "save_opened"
    /\ fs' = [fs EXCEPT ![tmp_path(state_path)] = Json(json_dump(sm_data))]
    /\ sm_pc' = "save_written"
    /\ UNCHANGED <<sm_data, sm_ops, restarts, daemon, job, client>>

\* line 100: the .tmp file is renamed to the state path (atomically)
SaveReplace ==
    /\ sm_pc = "save_written"
    /\ fs' = [p \in DOMAIN fs |->
                IF p = state_path THEN fs[tmp_path(state_path)] ELSE Missing]
    /\ sm_pc' = "idle"
    /\ UNCHANGED <<sm_data, sm_ops, restarts, daemon, job, client>>

\* the process is killed, at any point; the files stay as they are
StoreCrash ==
    /\ sm_pc # "down"
    /\ restarts < MaxRestarts
    /\ restarts' = restarts + 1
    /\ sm_pc' = "down"
    /\ sm_data' = EmptyValue
    /\ UNCHANGED <<fs, sm_ops, daemon, job, client>>

NextStore ==
    \/ StoreStart \/ StoreSetEtag \/ StoreMarkReviewed \/ StoreCleanup
    \/ StoreOpRaises \/ SaveOpen \/ SaveDump \/ SaveReplace \/ StoreCrash

StoreSpec == InitStore /\ [][NextStore]_vars

(***************************************************************************)
(* One review job after the other for one PR and one skill: run_review     *)
(* (lines 41-151) step by step, upsert_comment as one step of it.          *)
(***************************************************************************)
\* the comments a PR can hold before its first review: none, one of a
\* person, one of the daemon for another skill
InitialComments ==
    { << >>,
      << << seg("stdout", "text", 10) >> >>,
      << full_text(<< seg("stdout", "text", 10) >>, "security", NoSHA) >> }

InitReview ==
    /\ data = EmptyState
    /\ github = SmallWorld
    /\ reaped = << >>
    /\ Started
    /\ StoreOff
    /\ rr_pc = "idle"
    /\ rr = NoRun
    /\ worktree \in BOOLEAN
    /\ comments \in InitialComments
    /\ upserts = << >>
    /\ posted = NoHistory
    /\ ClientOff

\* how run() ends: the command exits with 0 or not (run does not look),
\* the 30 minutes are over, or the command cannot be started
RunOutcomes == {"ok", "nonzero", "TimeoutExpired", "OSError"}

failure_class(exc) == IF exc = "TimeoutExpired" THEN "timeout" ELSE "exception"

\* the first failure of the run is the one it is classified by
classified(c) == IF rr.class = "none" THEN c ELSE rr.class

\* an exception inside the try block goes to its except clause
Raises(exc) ==
    /\ rr_pc' = IF exc = "TimeoutExpired" THEN "except_timeout"
                ELSE "except_exception"
    /\ rr' = [rr EXCEPT !.class = classified(failure_class(exc))]

\* the call upsert_comment(repo, pr_number, body, skill, head_sha)
Upsert(body, o) ==
    LET u == upsert_comment(comments, body, skill, rr.head_sha, o)
    IN /\ comments' = u.comments
       /\ upserts' = Append(upserts, [u EXCEPT !.comments = << >>])
       /\ posted' = [posted EXCEPT !.calls = Min(@ + 1, MaxRuns),
                                   !.all_ok = @ /\ u.ok,
                                   !.last = u.full_body]

raised_by(body, o) == upsert_comment(comments, body, skill, rr.head_sha, o).raised

\* main() calls run_review for a new head of the PR
RunReview ==
    /\ rr_pc \in {"idle", "returned", "raised"}
    /\ posted.runs < MaxRuns
    /\ \E h \in HeadSHAs : rr' = [NoRun EXCEPT !.head_sha = h]
    /\ rr_pc' = "pull"
    /\ upserts' = << >>
    /\ posted' = [posted EXCEPT !.runs = @ + 1]
    /\ UNCHANGED <<worktree, comments, daemon, store, restarts, client>>

\* 1. git pull --all
GitPull ==
    /\ rr_pc = "pull"
    /\ \E o \in RunOutcomes :
         IF o \in {"ok", "nonzero"}
         THEN rr_pc' = "stale" /\ UNCHANGED rr
         ELSE Raises(o)
    /\ UNCHANGED <<worktree, comments, upserts, posted, daemon, store, restarts, client>>

\* 2. a stale worktree is removed
StaleWorktree ==
    /\ rr_pc = "stale"
    /\ IF worktree
       THEN \E o \in RunOutcomes :
              IF o \in {"ok", "nonzero"}
              THEN /\ rr_pc' = "add"
                   /\ worktree' = (o = "nonzero")
                   /\ UNCHANGED rr
              ELSE Raises(o) /\ UNCHANGED worktree
       ELSE rr_pc' = "add" /\ UNCHANGED <<rr, worktree>>
    /\ UNCHANGED <<comments, upserts, posted, daemon, store, restarts, client>>

\* 3. git worktree add
WorktreeAdd ==
    /\ rr_pc = "add"
    /\ \E o \in RunOutcomes :
         IF o \in {"ok", "nonzero"}
         THEN /\ rr_pc' = "skill"
              /\ worktree' = (worktree \/ o = "ok")
              /\ UNCHANGED rr
         ELSE Raises(o) /\ UNCHANGED worktree
    /\ UNCHANGED <<comments, upserts, posted, daemon, store, restarts, client>>

\* 4. no skill file at either path: an error comment, and return
SkillMissing ==
    /\ rr_pc = "skill"
    /\ \E o \in UpsertOutcomes :
         /\ Upsert(skill_not_found, o)
         /\ IF raised_by(skill_not_found, o) # None
            THEN /\ rr_pc' = "except_timeout"
                 /\ rr' = [rr EXCEPT !.class = classified("skill_missing")]
            ELSE /\ rr_pc' = "finally"
                 /\ rr' = [rr EXCEPT !.class = classified("skill_missing")]
    /\ UNCHANGED <<worktree, daemon, store, restarts, client>>

\* 4. the skill file is there and is read, or reading it fails
SkillRead ==
    /\ rr_pc = "skill"
    /\ worktree
    /\ \/ rr_pc' = "claude" /\ UNCHANGED rr
       \/ Raises("OSError")
    /\ UNCHANGED <<worktree, comments, upserts, posted, daemon, store, restarts, client>>

\* 5. the reviewer runs: it exits, or its hour is over, or it cannot start
Claude ==
    /\ rr_pc = "claude"
    /\ \/ \E returncode \in {0, 1}, stdout \in Streams, stderr \in Stderrs :
            /\ rr_pc' = "post"
            /\ rr' = [rr EXCEPT
                        !.output = review_output(returncode, stdout, stderr),
                        !.class = IF returncode # 0 THEN classified("nonzero")
                                  ELSE @]
       \/ \E exc \in {"TimeoutExpired", "OSError"} : Raises(exc)
    /\ UNCHANGED <<worktree, comments, upserts, posted, daemon, store, restarts, client>>

\* 6. the result is posted (line 125)
Post ==
    /\ rr_pc = "post"
    /\ \E o \in UpsertOutcomes :
         /\ Upsert(rr.output, o)
         /\ IF raised_by(rr.output, o) # None
            THEN Raises(raised_by(rr.output, o))
            ELSE \E printed \in BOOLEAN :
                   LET u == upsert_comment(comments, rr.output, skill,
                                           rr.head_sha, o)
                   IN /\ rr_pc' = "notify"
                      /\ rr' = [rr EXCEPT !.notify.comment_url =
                                              comment_url(u, printed)]
    /\ UNCHANGED <<worktree, daemon, store, restarts, client>>

\* 6. the notification is made (line 126)
Notify ==
    /\ rr_pc = "notify"
    /\ \E webhook_url \in BOOLEAN, o \in NotifyOutcomes :
         LET n == notify_review_posted(webhook_url, rr.notify.comment_url, o)
         IN IF n.raised # None
            THEN /\ rr_pc' = "except_exception"
                 /\ rr' = [rr EXCEPT !.notify = n,
                                     !.class = classified("exception")]
            ELSE /\ rr_pc' = "finally"
                 /\ rr' = [rr EXCEPT !.notify = n]
    /\ UNCHANGED <<worktree, comments, upserts, posted, daemon, store, restarts, client>>

\* except subprocess.TimeoutExpired
ExceptTimeout ==
    /\ rr_pc = "except_timeout"
    /\ \E o \in UpsertOutcomes :
         /\ Upsert(timed_out, o)
         /\ rr' = [rr EXCEPT !.exc = raised_by(timed_out, o)]
    /\ rr_pc' = "finally"
    /\ UNCHANGED <<worktree, daemon, store, restarts, client>>

\* except Exception
ExceptException ==
    /\ rr_pc = "except_exception"
    /\ \E o \in UpsertOutcomes :
         /\ Upsert(review_failed, o)
         /\ rr' = [rr EXCEPT !.exc = raised_by(review_failed, o)]
    /\ rr_pc' = "finally"
    /\ UNCHANGED <<worktree, daemon, store, restarts, client>>

\* finally: 7. the worktree is removed if it is there; then run_review
\* returns, or the exception of an except clause goes on to main
Finally ==
    /\ rr_pc = "finally"
    /\ \E o \in RunOutcomes :
         LET c == cleanup(worktree, o)
         IN /\ rr' = [rr EXCEPT !.cleanup = c,
                                !.exc = IF c.raised # None THEN c.raised ELSE @]
            /\ worktree' = (worktree /\ ~(c.attempted /\ o = "ok"))
            /\ rr_pc' = IF c.raised # None \/ rr.exc # None
                        THEN "raised" ELSE "returned"
    /\ UNCHANGED <<comments, upserts, posted, daemon, store, restarts, client>>

NextReview ==
    \/ RunReview \/ GitPull \/ StaleWorktree \/ WorktreeAdd \/ SkillMissing
    \/ SkillRead \/ Claude \/ Post \/ Notify \/ ExceptTimeout \/ ExceptException
    \/ Finally

ReviewSpec == InitReview /\ [][NextReview]_vars

(***************************************************************************)
(* One GitHubClient, called again and again, while time passes.            *)
(***************************************************************************)
InitClient ==
    /\ data = EmptyState
    /\ github = SmallWorld
    /\ reaped = << >>
    /\ Started
    /\ StoreOff
    /\ JobOff
    /\ gc_pc = "idle"
    /\ gc = NoCall

\* what no step of the client changes
beyond_client ==
    <<data, disk, active_reviews, running, backoff, pc, repo_idx, prs,
      open_pr_numbers, launching, github, fails, reaped, restarts, store, job,
      orphans>>

\* line 147: _request is called and looks at the counters
CallRequest ==
    /\ gc_pc \in {"idle", "returned", "raised"}
    /\ \E etag \in ETags \cup {None} : gc' = [NoCall EXCEPT !.etag = etag]
    /\ gc_pc' = IF must_wait(rate_limit_remaining, rate_limit_ahead)
                THEN "rate_limited" ELSE "sending"
    /\ UNCHANGED <<rate_limit_remaining, rate_limit_ahead, beyond_client>>

\* lines 148-150: the clock is read again and the sleep begins; when the
\* reset time has passed since line 147 the wait is 0 or less, and
\* time.sleep raises ValueError for a negative one
ComputeWait ==
    /\ gc_pc = "rate_limited"
    /\ IF rate_limit_ahead
       THEN gc_pc' = "sleeping" /\ UNCHANGED gc
       ELSE \/ gc_pc' = "sending" /\ UNCHANGED gc
            \/ /\ gc_pc' = "raised"
               /\ gc' = [gc EXCEPT !.result =
                           raises("ValueError",
                                  <<rate_limit_remaining, rate_limit_ahead>>)]
    /\ UNCHANGED <<rate_limit_remaining, rate_limit_ahead, beyond_client>>

\* line 150: time.sleep(wait) returns at the reset time
SleepReturns ==
    /\ gc_pc = "sleeping"
    /\ rate_limit_ahead' = FALSE
    /\ gc_pc' = "sending"
    /\ gc' = [gc EXCEPT !.waited = TRUE]
    /\ UNCHANGED <<rate_limit_remaining, beyond_client>>

\* the clock reaches rate_limit_reset while the client does not sleep
TimePasses ==
    /\ gc_pc \notin {"off", "sleeping"}
    /\ rate_limit_ahead
    /\ rate_limit_ahead' = FALSE
    /\ UNCHANGED <<rate_limit_remaining, gc_pc, gc, beyond_client>>

\* lines 152-187: the request is sent and urlopen ends in some way
Respond ==
    /\ gc_pc = "sending"
    /\ \E o \in Outcomes :
         LET r == request(gc.etag, rate_limit_remaining, rate_limit_ahead, o)
         IN /\ gc' = [gc EXCEPT !.outcome = o, !.result = r]
            /\ rate_limit_remaining' = r.remaining
            /\ rate_limit_ahead' = r.ahead
            /\ gc_pc' = IF r.raised # None THEN "raised" ELSE "returned"
    /\ UNCHANGED beyond_client

NextClient ==
    CallRequest \/ ComputeWait \/ SleepReturns \/ TimePasses \/ Respond

ClientSpec == InitClient /\ [][NextClient]_vars



(***************************************************************************)
(* Properties.                                                             *)
(***************************************************************************)
active_count == Cardinality(DOMAIN active_reviews)

has_record(d, key) == key[2] \in DOMAIN d[key[1]].prs

\* a step of NextPR: the first PR of prs is looked at
looks_at_next_pr == pc = "prs" /\ prs # << >> /\ prs' = Tail(prs)

\* C1: the active-review set never holds more than max_concurrent_reviews
\* entries, over all repositories together, and start_review is entered
\* only with fewer than max_concurrent_reviews jobs active.
C1_ConcurrencyCap ==
    /\ active_count <= max_concurrent_reviews
    /\ pc = "popen" => active_count < max_concurrent_reviews

\* a PR of repo 2 that needs review is looked at while a running job of
\* repo 1 fills the only slot
C1_Witness ==
    /\ pc = "prs" /\ prs # << >> /\ repo_idx = 2
    /\ active_count = max_concurrent_reviews
    /\ \E k \in DOMAIN active_reviews : k[1] = 1 /\ ~active_reviews[k].exited
    /\ ~is_reviewing(active_reviews, repo_idx, Head(prs).number)
    /\ get_reviewed_sha(data, repo_idx, Head(prs).number) = None

\* C2: for a PR that passes the branch filter and is not being reviewed,
\* the review is started exactly when there is capacity and no SHA is
\* recorded, or the recorded SHA differs from the head, or the recorded
\* status is in_progress.
C2_NeedsReviewDecision ==
    [][ looks_at_next_pr =>
          LET pr == Head(prs)
              rec == data[repo_idx].prs
              recorded == pr.number \in DOMAIN rec
              decision ==
                  \/ ~recorded
                  \/ rec[pr.number].head_sha # pr.head_sha
                  \/ rec[pr.number].review_status = "in_progress"
          IN  (/\ branch_admitted(repo_idx, pr.base_ref)
               /\ ~is_reviewing(active_reviews, repo_idx, pr.number))
              => ((pc' = "popen")
                    <=> (decision /\ can_start_review(active_reviews)))
      ]_vars

\* a PR recorded as completed at its current head is looked at, with a
\* free slot
C2_Witness ==
    /\ pc = "prs" /\ prs # << >>
    /\ branch_admitted(repo_idx, Head(prs).base_ref)
    /\ ~is_reviewing(active_reviews, repo_idx, Head(prs).number)
    /\ get_reviewed_sha(data, repo_idx, Head(prs).number) = Head(prs).head_sha
    /\ get_review_status(data, repo_idx, Head(prs).number) = "completed"
    /\ can_start_review(active_reviews)

\* C3: when a job that exited with code 0 is reaped, the record of its PR
\* becomes completed with the SHA the job was launched for.
C3_CompletedOnSuccess ==
    [][ \A k \in Keys :
          (/\ k \in DOMAIN active_reviews
           /\ active_reviews[k].exited /\ active_reviews[k].returncode = 0
           /\ k \notin DOMAIN active_reviews')
          => /\ get_review_status(data', k[1], k[2]) = "completed"
             /\ get_reviewed_sha(data', k[1], k[2]) = active_reviews[k].head_sha
      ]_vars

\* C4: no review is started for a PR at head X after a job for X of that PR
\* was reaped with exit code 0 and the head has been X ever since.
C4_NoReviewOfReviewedHead ==
    [][ \A k \in DOMAIN reaped :
          (pc = "prs" /\ pc' = "popen" /\ k = <<repo_idx, launching'.number>>)
          => reaped[k] # launching'.head_sha
      ]_vars

\* C5: a fetch that returns anything but a 200 with a PR list leaves the
\* state store, the state file and the active-review set as they are,
\* starts no review and returns from poll_repo.
C5_FailedFetchNoEffect ==
    [][ (pc = "request" /\ pc' # "request") =>
          \A r \in OtherResponses(get_etag(data, repo_idx)), h \in RateHeaders :
              Fetched(r, h)
              => /\ UNCHANGED <<data, disk, active_reviews, launching>>
                 /\ pc' = "for"
      ]_vars

\* a request is out for a repo with a stored ETag and a PR record while a
\* review is active
C5_Witness ==
    /\ pc = "request"
    /\ get_etag(data, repo_idx) # None
    /\ DOMAIN data[repo_idx].prs # {}
    /\ active_reviews # << >>

\* C6: a key enters the active-review set only in a step of start_review
\* that adds this one key, with a running process, and before that step
\* the state store and the state file already record the PR as in_progress
\* with the SHA the job is launched for.
C6_InProgressSavedBeforeSpawn ==
    [][ \A k \in Keys :
          (k \notin DOMAIN active_reviews /\ k \in DOMAIN active_reviews')
          => /\ pc = "popen"
             /\ DOMAIN active_reviews' = DOMAIN active_reviews \cup {k}
             /\ ~active_reviews'[k].exited
             /\ has_record(data, k) /\ has_record(disk, k)
             /\ data[k[1]].prs[k[2]] =
                    [head_sha |-> active_reviews'[k].head_sha,
                     review_status |-> "in_progress"]
             /\ disk[k[1]].prs[k[2]] = data[k[1]].prs[k[2]]
      ]_vars

\* one job is registered, for head "new", with the record in_progress
C6_Witness ==
    /\ pc = "prs"
    /\ active_count = 1
    /\ \E k \in DOMAIN active_reviews :
         /\ active_reviews[k].head_sha = "new"
         /\ ~active_reviews[k].exited
         /\ has_record(disk, k)
         /\ disk[k[1]].prs[k[2]] =
                [head_sha |-> "new", review_status |-> "in_progress"]

EnabledRepos == {r \in Repos : config_repos[r].enabled}

\* poll_repo is running for the repo and has reached its request
polled(repo) ==
    pc \in {"request", "rate_limit_wait"} /\ repo_idx = repo

\* C7: as long as the daemon is not told to stop, every enabled repository
\* is polled again and again, also when the polls of another repository
\* raise in every sweep.
C7_OtherReposStillPolled ==
    \A repo \in EnabledRepos : ([]running) => []<>polled(repo)

\* C8: the k-th consecutive failed sweep sleeps min(30 * 2^(k-1), 300), the
\* backoff stays within [30, 300], and it is 30 when the last sweep ended
\* without an exception.  (At fails = MaxFails the count is MaxFails or
\* more; the ceiling is reached before that.)
C8_BackoffSequence ==
    /\ BackoffBase <= backoff /\ backoff <= BackoffCeiling
    /\ pc = "except" =>
         /\ fails >= 1
         /\ backoff = Min(30 * 2^(fails - 1), 300)
    /\ (pc # "except" /\ fails = 0) => backoff = 30

\* the fifth failed sweep in a row sleeps the ceiling
C8_Witness == pc = "except" /\ fails = 5 /\ backoff = 300

\* C9: the final save and the exit happen only with an empty active-review
\* set, after a termination signal, and at the exit the state file holds
\* the final state.
C9_ExitOnlyWhenDrained ==
    /\ pc \in {"final_save", "stopped"} => active_reviews = << >>
    /\ pc \in {"drain", "drain_sleep", "final_save", "stopped"} => ~running
    /\ pc = "stopped" => disk = data

\* the drain has reaped and sleeps because a review is still running
C9_Witness ==
    /\ pc = "drain_sleep"
    /\ \E k \in DOMAIN active_reviews : ~active_reviews[k].exited

\* C10: once a termination signal has cleared the running flag, the daemon
\* stops in the end, whatever it was doing.
C10_SignalLeadsToStop == (~running) ~> (pc = "stopped")

\* the signal arrived during the rate-limit wait, with a review running
C10_Witness ==
    /\ ~running
    /\ pc = "rate_limit_wait"
    /\ \E k \in DOMAIN active_reviews : ~active_reviews[k].exited

\* C11: once the running flag is cleared it stays cleared, poll_repo is
\* called for no further repository of the sweep and no new sweep starts.
C11_NoPollAfterSignal ==
    [][ ~running =>
          /\ ~running'
          /\ ~(pc = "for" /\ pc' \in {"request", "rate_limit_wait"})
          /\ ~(pc = "for" /\ repo_idx' # repo_idx)
          /\ ~(pc = "while" /\ pc' = "for")
      ]_vars

\* the flag was cleared in the middle of a sweep, during the poll of repo 1:
\* the for loop is back at its head with repo 2 still to poll
C11_Witness ==
    /\ ~running
    /\ pc = "for" /\ repo_idx = 2
    /\ config_repos[repo_idx].enabled

\* C12: an entry leaves the active-review set only when its process has
\* exited; a running job stays in the set with its handle, and a job's exit
\* is never a step of the daemon, in the polling loop or in the drain.
C12_OnlyExitedJobsLeave ==
    [][ \A k \in DOMAIN active_reviews :
          ~active_reviews[k].exited =>
            /\ k \in DOMAIN active_reviews'
            /\ active_reviews'[k].head_sha = active_reviews[k].head_sha
            /\ active_reviews'[k].exited
                  => UNCHANGED <<pc, repo_idx, prs, data, disk, running>>
      ]_vars

\* the drain is about to reap a job that exited with a nonzero code
C12_Witness ==
    /\ pc = "drain"
    /\ \E k \in DOMAIN active_reviews :
         active_reviews[k].exited /\ active_reviews[k].returncode = 1
\* C13: while the daemon keeps cycling, every job that has exited is removed
\* from the active-review set in the end, whatever the fetches return.
C13_ExitedJobsReaped ==
    \A k \in Keys :
        ([]running) =>
            ((k \in DOMAIN active_reviews /\ active_reviews[k].exited)
               ~> (k \notin DOMAIN active_reviews))
\* the record of the PR is in_progress
in_progress(d, key) ==
    has_record(d, key) /\ d[key[1]].prs[key[2]].review_status = "in_progress"

\* the daemon has restarted after its last crash and stands at the head of
\* the polling loop with the in_progress record of the PR loaded
restarted_with(key) ==
    /\ restarts = MaxRestarts
    /\ pc = "while" /\ active_reviews = << >>
    /\ in_progress(data, key)

\* C14: after a crash and restart with a PR persisted as in_progress, when
\* the PR stays open at the same head (and the daemon is not told to stop),
\* a later poll cycle starts a review of the PR again.
C14_RestartRetriggers ==
    \A k \in Keys :
        (github = SteadyWorld /\ []running) =>
            (restarted_with(k) ~> (k \in DOMAIN active_reviews))

\* poll_repo has looked at the PR, which needs a review, and has not started
\* one because the coordinator is at capacity
skipped_at_capacity(key) ==
    /\ pc = "prs" /\ repo_idx = key[1] /\ key[2] \in open_pr_numbers
    /\ key \notin DOMAIN active_reviews
    /\ ~can_start_review(active_reviews)

\* C15: a PR that needs review and was skipped at capacity gets its review
\* started in a later cycle, when it stays open at the same head and the
\* daemon neither crashes nor is told to stop (the jobs that fill the slots
\* exit in the end).
C15_SkippedIsStartedLater ==
    \A k \in Keys :
        (github = SteadyWorld /\ [](running /\ restarts = 0)) =>
            (skipped_at_capacity(k) ~> (k \in DOMAIN active_reviews))
\* poll_repo returns after it has looked at every PR of a fetched list
poll_succeeds == pc = "prs" /\ prs = << >> /\ pc' = "for"

C17_SaveLoadRoundTrip ==
    [][ (sm_pc = "save_written" /\ sm_pc' = "idle" /\ sm_data.shape = "state")
          => load(fs'[state_path]) = [raised |-> FALSE, data |-> sm_data]
      ]_vars

\* save() is about to rename the document of a state in which the mutators
\* have set an ETag and a PR record
C17_Witness ==
    /\ sm_pc = "save_written" /\ sm_ops = MaxOps
    /\ \E r \in DOMAIN sm_data.repos :
         sm_data.repos[r].etag # None /\ sm_data.repos[r].prs # << >>
    /\ fs[state_path] # fs[tmp_path(state_path)]

\* the file is the document of a state object
well_formed(content) == content.kind = "json" /\ content.value.shape = "state"

\* C18: the load never fails the process; when the state file is missing,
\* unparsable or otherwise malformed, the state in memory is the empty state
\* and the state-store operations work on it.
C18_LoadNeverFails ==
    /\ sm_pc # "failed"
    /\ sm_pc # "op_raised"
    /\ (sm_pc = "loaded" /\ ~well_formed(fs[state_path]))
         => sm_data = EmptyValue

\* what cleanup_closed_prs(repo, open_numbers) is to do to the value v,
\* giving w
pruned(v, w, repo, open_numbers) ==
    /\ w.shape = v.shape /\ w.version = v.version
    /\ DOMAIN w.repos = DOMAIN v.repos
    /\ \A r \in DOMAIN v.repos :
         /\ w.repos[r].etag = v.repos[r].etag
         /\ r # repo => w.repos[r].prs = v.repos[r].prs
         /\ r = repo =>
              /\ \A k \in DOMAIN v.repos[r].prs :
                   /\ int(k) \notin open_numbers => k \notin DOMAIN w.repos[r].prs
                   /\ int(k) \in open_numbers =>
                        /\ k \in DOMAIN w.repos[r].prs
                        /\ w.repos[r].prs[k] = v.repos[r].prs[k]
              /\ DOMAIN w.repos[r].prs \subseteq DOMAIN v.repos[r].prs

marked == { i \in DOMAIN comments : startswith(comments[i], marker(skill)) }

\* the comment body tells that the job failed in the way of class
describes(class, body) ==
    CASE class = "skill_missing" -> body = skill_not_found
      [] class = "timeout" -> body = timed_out
      [] class = "exception" -> body = review_failed
      [] class = "nonzero" ->
             body \in {exited_no_output} \cup (Stderrs \ { << >> })
      [] OTHER -> FALSE

\* C21: within one upsert call: when a marked comment is found and its
\* update succeeds, no comment is created; when it is found and the update
\* fails, create is invoked exactly once, with the same full body that the
\* update was given; when none is found, create is invoked exactly once and
\* no update is attempted.
C21_UpdateOrCreateOnce ==
    \A i \in DOMAIN upserts :
        LET c == upserts[i]
            found == c.existing_id # NoId
        IN /\ (found /\ c.update = "ok") => c.creates = << >>
           /\ (found /\ c.update # "ok") =>
                  c.creates = <<c.full_body>> /\ c.updates = <<c.full_body>>
           /\ ~found => c.creates = <<c.full_body>> /\ c.updates = << >>

\* C22: after any sequence of upsert calls for one (repo, PR, skill), made
\* one after the other, in which every list, update and create call
\* succeeds, the PR holds exactly one comment with the skill's marker, and
\* its body is the full body of the last upsert.
C22_OneMarkedComment ==
    (posted.calls >= 1 /\ posted.all_ok) =>
        /\ Cardinality(marked) = 1
        /\ \A i \in marked : comments[i] = posted.last

C22_Witness ==
    /\ posted.all_ok
    /\ posted.runs = MaxRuns
    /\ rr_pc = "returned"
    /\ Len(upserts) = 1
    /\ upserts[1].update = "ok"
    /\ Len(comments) = 2
    /\ startswith(comments[1], marker("security"))

\* C23: truncate_output returns a text of at most MAX_COMMENT_LENGTH
\* characters unchanged, and for a longer one a text of at most
\* MAX_COMMENT_LENGTH characters that ends with the truncation notice; so
\* every body upsert_comment hands to an update or a create has at most
\* 65000 characters.
C23_TruncatedToLimit ==
    \A i \in DOMAIN upserts :
        LET c == upserts[i]
        IN /\ text_len(c.raw) <= MAX_COMMENT_LENGTH => c.full_body = c.raw
           /\ text_len(c.raw) > MAX_COMMENT_LENGTH =>
                  /\ text_len(c.full_body) <= MAX_COMMENT_LENGTH
                  /\ c.full_body[Len(c.full_body)] = truncation_notice[1]
           /\ \A b \in {c.updates[j] : j \in DOMAIN c.updates}
                       \cup {c.creates[j] : j \in DOMAIN c.creates} :
                  text_len(b) <= 65000

C23_Witness ==
    \E i \in DOMAIN upserts :
        /\ text_len(upserts[i].raw) = MAX_COMMENT_LENGTH + 1
        /\ upserts[i].creates # << >>
        /\ text_len(upserts[i].creates[1]) = MAX_COMMENT_LENGTH

\* C24: when a review job fails (the reviewer exits with a code other than
\* 0, a step times out, the skill file is missing, an exception nobody
\* expected) and run_review returns, it has issued an upsert of a comment
\* that describes that class of failure.
C24_FailureIsDescribed ==
    (rr_pc = "returned" /\ rr.class # "none") =>
        \E i \in DOMAIN upserts : describes(rr.class, upserts[i].body)

\* C25: on every way out of run_review (success, missing skill file,
\* timeout, exception) the removal of the worktree is attempted if the
\* worktree path exists at that moment, and no failure of the removal
\* leaves run_review.
C25_WorktreeRemovalAttempted ==
    rr_pc \in {"returned", "raised"} =>
        /\ rr.cleanup.existed => rr.cleanup.attempted
        /\ rr.cleanup.raised = None
        /\ rr_pc = "raised" =>
               \E i \in DOMAIN upserts : upserts[i].raised = rr.exc

C25_Witness ==
    /\ rr_pc = "returned"
    /\ rr.class = "timeout"
    /\ rr.cleanup.attempted
    /\ rr.cleanup.swallowed
    /\ worktree

\* C26: the state file is written by the main loop of the daemon alone: by
\* the save of start_review, by the save that ends a sweep and by the save
\* at shutdown, each writing the state in memory; a launched review job
\* never writes it.
C26_OnlyMainLoopWrites ==
    [][ disk' # disk =>
          /\ disk' = data'
          /\ \/ pc = "prs" /\ pc' = "popen"
             \/ pc = "sweep_done" /\ pc' # pc
             \/ pc = "final_save" /\ pc' = "stopped" ]_vars

C26_Witness ==
    /\ pc = "interval_sleep"
    /\ \E key \in DOMAIN active_reviews :
         /\ active_reviews[key].exited
         /\ has_record(disk, key)
         /\ disk[key[1]].prs[key[2]].review_status = "in_progress"
    /\ disk # EmptyState
    /\ disk = data

\* C27: the branch filter admits a PR iff the repo's branch list is empty
\* or holds the PR's base branch; a PR it rejects has no review started in
\* that poll, a PR it admits that needs a review and finds a free slot has
\* one started, and in both cases the PR's number is counted as open, so
\* that the record of a rejected PR is still there after the poll.
C27_BranchFilter ==
    [][ /\ looks_at_next_pr =>
             LET pr == Head(prs)
                 allowed == config_repos[repo_idx].branches
                 admitted == allowed = {} \/ pr.base_ref \in allowed
             IN /\ pr.number \in open_pr_numbers'
                /\ ~admitted =>
                       /\ pc' = "prs"
                       /\ UNCHANGED <<data, disk, active_reviews, launching>>
                /\ ( /\ admitted
                     /\ ~is_reviewing(active_reviews, repo_idx, pr.number)
                     /\ needs_review(
                            get_reviewed_sha(data, repo_idx, pr.number),
                            pr.head_sha,
                            get_review_status(data, repo_idx, pr.number))
                     /\ can_start_review(active_reviews) )
                       => pc' = "popen" /\ launching' = pr
        /\ poll_succeeds =>
             \A n \in open_pr_numbers \cap DOMAIN data[repo_idx].prs :
                 /\ n \in DOMAIN data'[repo_idx].prs
                 /\ data'[repo_idx].prs[n] = data[repo_idx].prs[n] ]_vars

\* a PR of the first repository (branches: main) was looked at, its record
\* says in_progress and no job was started although no job is active: the
\* branch filter rejected it
C27_Witness ==
    /\ pc = "prs" /\ prs = << >>
    /\ repo_idx = 1
    /\ open_pr_numbers = {1}
    /\ 1 \in DOMAIN data[1].prs
    /\ data[1].prs[1].review_status = "in_progress"
    /\ active_reviews = << >>

\* _request has returned or raised for an outcome of urlopen that is a
\* failure below HTTP
network_failure(o) ==
    \/ o.kind \in {"URLError", "TimeoutError", "RemoteDisconnected"}
    \/ o.kind = "response" /\ o.body \in {"stalls", "cut short"}

\* C28: _request maps every outcome of a request to (status, payload, etag)
\* and never raises: a success to the 2xx status, the parsed body and the
\* ETag of the response; a 304 to (304, null, the caller's ETag); any other
\* HTTP error to (its code, null, null); a connection error or a timeout to
\* (0, null, null).  The payload is there only for a success, and the
\* status is 0 only for a failure below HTTP.
C28_EveryOutcomeIsMapped ==
    (gc_pc \in {"returned", "raised"} /\ gc.outcome # NoOutcome) =>
        LET o == gc.outcome
            r == gc.result
            triple == <<r.status, r.payload, r.etag>>
        IN /\ r.raised = None
           /\ (o.kind = "response" /\ o.body = "json") =>
                  triple = <<o.code, "list", o.etag>>
           /\ (o.kind = "HTTPError" /\ o.code = 304) =>
                  triple = <<304, None, gc.etag>>
           /\ (o.kind = "HTTPError" /\ o.code # 304) =>
                  triple = <<o.code, None, None>>
           /\ network_failure(o) => triple = <<0, None, None>>
           /\ r.payload # None => o.kind = "response"
           /\ r.status = 0 => network_failure(o)

\* the step in which urlopen ends and _request returns or raises
responds == gc_pc = "sending" /\ gc_pc' \in {"returned", "raised"}

follows_headers(h) ==
    /\ rate_limit_remaining' =
           IF h.has_remaining THEN h.remaining ELSE rate_limit_remaining
    /\ rate_limit_ahead' =
           IF h.has_reset THEN h.reset_ahead ELSE rate_limit_ahead

\* C29 as stated: every HTTP response, success or error, sets each counter
\* to the value of its header when the header is there and leaves it alone
\* when it is not; a failure below HTTP leaves both counters alone.
C29_CountersFollowHeaders ==
    [][ responds =>
          LET o == gc'.outcome
          IN /\ o.kind \in {"response", "HTTPError"} => follows_headers(o.headers)
             /\ network_failure(o) =>
                    UNCHANGED <<rate_limit_remaining, rate_limit_ahead>> ]_vars

\* C29 amended: every HTTP response whose headers arrive, success or error,
\* sets each counter to the value of its header when the header is there
\* and leaves it alone when it is not, whatever happens to its body; a
\* request that gets no response leaves both counters alone.
C29_CountersFollowReceivedHeaders ==
    [][ responds =>
          LET o == gc'.outcome
          IN /\ o.kind \in {"response", "HTTPError"} => follows_headers(o.headers)
             /\ o.kind \notin {"response", "HTTPError"} =>
                    UNCHANGED <<rate_limit_remaining, rate_limit_ahead>> ]_vars

\* a response with a remaining count and no reset time has left the reset
\* time of an earlier response in place
C29_Witness ==
    /\ gc_pc = "returned"
    /\ gc.outcome.kind = "response"
    /\ gc.outcome.headers.has_remaining /\ ~gc.outcome.headers.has_reset
    /\ rate_limit_remaining = 42
    /\ rate_limit_ahead

\* C30: no request is sent while rate_limit_remaining is 0 and the reset
\* time lies ahead: _request sleeps until the reset time first, and from
\* the sleep the client goes on to the request and to nothing else, the
\* counters and the daemon's state being as they were.
C30_NoRequestWhileRateLimited ==
    [][ /\ (gc_pc # "sending" /\ gc_pc' = "sending") =>
               ~(rate_limit_remaining' = 0 /\ rate_limit_ahead')
        /\ gc_pc = "sleeping" =>
               /\ gc_pc' = "sending"
               /\ ~rate_limit_ahead'
               /\ UNCHANGED <<rate_limit_remaining, data, disk,
                              active_reviews, pc>> ]_vars

C30_Witness ==
    /\ gc_pc = "sending"
    /\ gc.waited
    /\ rate_limit_remaining = 0

(***************************************************************************)
(* Claims C31 to C40.                                                      *)
(***************************************************************************)
\* value is the first 7 characters of sha (all of it when it is shorter)
first_seven(value, sha) ==
    /\ Len(value) = Min(7, Len(sha))
    /\ \A j \in 1..Len(value) : value[j] = sha[j]

\* C31: the footer that upsert_comment builds holds "Reviewed commit:" with
\* the first 7 characters of the head SHA when a head SHA is given, holds no
\* "Reviewed commit" phrase when none is given, and holds the UTC time in
\* both cases.
C31_FooterNamesCommitAndTime ==
    \A i \in DOMAIN upserts :
        LET f == upserts[i].footer
            commits == { j \in DOMAIN f : f[j].phrase = "Reviewed commit:" }
        IN /\ rr.head_sha # NoSHA =>
                /\ commits # {}
                /\ \A j \in commits : first_seven(f[j].value, rr.head_sha)
           /\ rr.head_sha = NoSHA => commits = {}
           /\ \E j \in DOMAIN f : f[j].phrase = "at" /\ f[j].value = utc_now

\* a footer was built for a head SHA that is longer than 7 characters, and
\* the comment that carries it was created
C31_Witness ==
    /\ rr.head_sha # NoSHA
    /\ Len(rr.head_sha) > 7
    /\ upserts # << >>
    /\ Len(upserts[1].footer) = 2
    /\ upserts[1].creates # << >>
    /\ upserts[1].ok

\* C32: after every poll cycle (the sweep has ended, by its save or by an
\* exception, and the loop sleeps or has gone on), and at daemon exit, the
\* content of the state file equals the state in memory.
C32_FileEqualsMemoryAfterCycle ==
    pc \in {"interval_sleep", "except", "while", "drain", "drain_sleep",
            "stopped"} => disk = data

\* C33: notify_review_posted never raises.  With no webhook URL it makes no
\* title lookup and sends nothing; with a URL a failure of the lookup or of
\* the POST is logged and swallowed, and without a comment URL only the
\* button is left out.  So after the notification the job goes on to the
\* finally block as a posted review: no except clause runs and no second
\* comment text replaces the review.
C33_NotifyNeverRaises ==
    rr.notify.called =>
        /\ rr.notify.raised = None
        /\ ~rr.notify.webhook_url =>
              rr.notify.lookups = 0 /\ rr.notify.posts = 0
        /\ rr.notify.webhook_url =>
              /\ rr.notify.lookups = 1 /\ rr.notify.posts = 1
              /\ rr.notify.button = (rr.notify.comment_url # None)
        /\ rr_pc \in {"finally", "returned"}
        /\ rr.class \in {"none", "nonzero"}
        /\ rr.exc = None
        /\ Len(upserts) = 1
        /\ upserts[1].body = rr.output

\* the webhook is configured, the review was posted but gh printed no URL,
\* the notification failed and was logged, and the job returned
C33_Witness ==
    /\ rr.notify.called
    /\ rr.notify.webhook_url
    /\ rr.notify.comment_url = None
    /\ rr.notify.logged
    /\ upserts # << >>
    /\ upserts[1].ok
    /\ rr_pc = "returned"

\* C34: poll_repo never starts a review for a PR whose key repo#N is in the
\* active-review set (it goes on to the next PR and changes nothing), so no
\* registered job handle is ever overwritten and at most one review job per
\* (repo, PR) is in flight.
C34_NoStartWhileRegistered ==
    [][/\ looks_at_next_pr
          /\ <<repo_idx, Head(prs).number>> \in DOMAIN active_reviews =>
              /\ pc' = "prs"
              /\ UNCHANGED <<data, disk, active_reviews, launching>>
       /\ pc = "popen" /\ pc' = "prs" =>
              /\ <<repo_idx, launching.number>> \notin DOMAIN active_reviews
              /\ DOMAIN active_reviews' =
                     DOMAIN active_reviews \cup {<<repo_idx, launching.number>>}
              /\ \A key \in DOMAIN active_reviews :
                     active_reviews'[key] = active_reviews[key]]_vars

\* poll_repo has just passed over a PR that is marked in_progress and whose
\* job has exited but is still registered
C34_Witness ==
    /\ pc = "prs"
    /\ \E n \in open_pr_numbers :
          /\ <<repo_idx, n>> \in DOMAIN active_reviews
          /\ active_reviews[<<repo_idx, n>>].exited
          /\ active_reviews[<<repo_idx, n>>].head_sha = "old"
          /\ get_reviewed_sha(data, repo_idx, n) = "old"
          /\ get_review_status(data, repo_idx, n) = "in_progress"
    /\ prs = << >>

\* C35: the stored ETag of a repository changes only in a poll of that
\* repository whose fetch succeeded and returned a new ETag, and becomes that
\* ETag; a success without an ETag, a 304 and every failed fetch leave it
\* unchanged; and every fetch sends the stored ETag as the conditional
\* header when there is one (so a GitHub whose list still has that ETag
\* answers 304 and the poll ends there).
C35_ETagFrame ==
    [][/\ \A r \in Repos :
             get_etag(data', r) # get_etag(data, r) =>
                 /\ pc = "request" /\ pc' = "prs"
                 /\ r = repo_idx
                 /\ get_etag(data', r) \in github.etags
       /\ pc = "request" /\ pc' \in {"for", "except"} =>
             \A r \in Repos : get_etag(data', r) = get_etag(data, r)
       /\ pc = "request" /\ pc' # pc /\ ~github.faults
             /\ get_etag(data, repo_idx) \in github.etags =>
                 pc' = "for" /\ UNCHANGED data]_vars

\* a repository's ETag was stored in this run while another repository
\* keeps the ETag of the state file, and a later fetch was answered with 304
C35_Witness ==
    /\ ~github.faults
    /\ pc = "for"
    /\ repo_idx = 2
    /\ get_etag(data, 1) \in github.etags
    /\ get_etag(data, 2) = None
    /\ get_etag(disk, 1) = None

\* C36: for a disabled repository poll_repo issues no fetch, starts no
\* review and leaves the state store and the active-review set unchanged,
\* in every cycle: the loop goes on to the next repository, and no position
\* of poll_repo beyond the test is ever taken for a disabled repository.
C36_DisabledRepoUntouched ==
    [][/\ /\ pc = "for"
          /\ repo_idx \in DOMAIN config_repos
          /\ ~config_repos[repo_idx].enabled
          /\ repo_idx' # repo_idx
          => /\ pc' = "for"
             /\ repo_idx' = repo_idx + 1
             /\ UNCHANGED <<data, disk, active_reviews, launching, prs,
                            open_pr_numbers, rate_limit_remaining,
                            rate_limit_ahead>>
       /\ pc' \in {"rate_limit_wait", "request", "prs", "popen"} =>
             config_repos[repo_idx'].enabled]_vars

\* the sweep has passed the disabled repository while a review job is
\* registered and a stored ETag is in the state
C36_Witness ==
    /\ pc = "for"
    /\ running
    /\ repo_idx > 1
    /\ ~config_repos[repo_idx - 1].enabled
    /\ DOMAIN active_reviews # {}
    /\ \E r \in Repos : get_etag(data, r) # None

\* main (lines 246-269): the process exits with 0 when run_review returns
\* and with 1 when an exception leaves it
exit_code(p) == IF p = "raised" THEN 1 ELSE 0

\* C37: the review job exits with a nonzero code whenever the review failed
\* (reviewer exit code not 0, timeout, missing skill file, an exception) and
\* with 0 only when a review was produced and posted.
C37_ExitCodeTellsOutcome ==
    rr_pc \in {"returned", "raised"} =>
        /\ rr.class # "none" => exit_code(rr_pc) # 0
        /\ exit_code(rr_pc) = 0 =>
              /\ rr.class = "none"
              /\ upserts # << >>
              /\ upserts[Len(upserts)].ok

\* the record the state store holds for key is that of the job registered
\* for it: in_progress, for the SHA the job was launched for
record_of_job(d, a, key) ==
    /\ key[2] \in DOMAIN d[key[1]].prs
    /\ d[key[1]].prs[key[2]].review_status = "in_progress"
    /\ d[key[1]].prs[key[2]].head_sha = a[key].head_sha

\* C38: whenever a key repo#N is in the active-review set, the state store
\* holds a record for (repo, N) with review_status in_progress and head_sha
\* equal to the SHA the job was launched for.
C38_ActiveKeyHasRecord ==
    \A key \in DOMAIN active_reviews : record_of_job(data, active_reviews, key)

\* C38 amended: a key is registered with such a record in the store, and
\* while the key stays in the active-review set the record is unchanged or
\* is removed by cleanup_closed_prs because a successful poll of the
\* repository did not list the PR; no other record is written for the key.
C38_ActiveKeyRecordOrPruned ==
    [][/\ \A key \in DOMAIN active_reviews' \ DOMAIN active_reviews :
             record_of_job(data', active_reviews', key)
       /\ \A key \in DOMAIN active_reviews' \cap DOMAIN active_reviews :
             \/ /\ key[2] \in DOMAIN data[key[1]].prs
                /\ key[2] \in DOMAIN data'[key[1]].prs
                /\ data'[key[1]].prs[key[2]] = data[key[1]].prs[key[2]]
             \/ /\ key[2] \notin DOMAIN data'[key[1]].prs
                /\ \/ key[2] \notin DOMAIN data[key[1]].prs
                   \/ /\ pc = "prs" /\ prs = << >>
                      /\ key[1] = repo_idx
                      /\ key[2] \notin open_pr_numbers]_vars

\* the record of a registered, still running job was pruned because the PR
\* was closed
C38_Witness ==
    \E key \in DOMAIN active_reviews :
        /\ ~active_reviews[key].exited
        /\ key[2] \notin DOMAIN data[key[1]].prs
        /\ pc = "for"

\* the review job of this daemon process that runs on the worktree of key
works_on(key) ==
    key \in DOMAIN active_reviews /\ ~active_reviews[key].exited

\* C39: no two review jobs that run at the same time operate on the same
\* worktree (same repository and PR number), the jobs left running by a
\* previous daemon process after a crash or restart included.
C39_OneJobPerWorktree ==
    \A key \in Keys : ~(key \in orphans /\ works_on(key))

\* C39 amended: within one daemon process no two review jobs run on the same
\* worktree at the same time: the handle registered for a running job stays
\* registered, and is not replaced, until the job has exited.
C39_OneJobPerWorktreeInProcess ==
    [][\A key \in Keys :
          works_on(key) /\ restarts' = restarts =>
              /\ key \in DOMAIN active_reviews'
              /\ active_reviews'[key].head_sha = active_reviews[key].head_sha
              /\ ~(pc = "popen" /\ pc' = "prs"
                     /\ key = <<repo_idx, launching.number>>)]_vars

\* a job runs for a PR in the restarted daemon while another PR's job of the
\* dead process is still running
C39_Witness ==
    /\ restarts = 1
    /\ orphans # {}
    /\ \E key \in Keys : works_on(key) /\ key \notin orphans

\* C40: every text that upsert_comment sends to update or to create, a
\* truncated one included, begins with the whole marker of the skill, so
\* the startswith filter of find_existing_comment matches the comment the
\* daemon has posted for the skill.
C40_SentTextBeginsWithMarker ==
    /\ \A i \in DOMAIN upserts :
         \A k \in {"updates", "creates"} :
            \A j \in DOMAIN upserts[i][k] :
               /\ startswith(upserts[i][k][j], marker(skill))
               /\ text_len(upserts[i][k][j]) >= text_len(marker(skill))
    /\ posted.calls > 0 /\ posted.all_ok =>
         /\ \E c \in DOMAIN comments : comments[c] = posted.last
         /\ find_existing_comment(comments, skill, "ok") # NoId
         /\ comments[find_existing_comment(comments, skill, "ok")] = posted.last

\* a text over the limit was truncated and created, and a later upsert found
\* and updated it
C40_Witness ==
    /\ posted.runs = 2
    /\ posted.all_ok
    /\ upserts # << >>
    /\ upserts[1].updates # << >>
    /\ upserts[1].full_body # upserts[1].raw
    /\ text_len(upserts[1].full_body) = MAX_COMMENT_LENGTH

=============================================================================
